---- MODULE Spec2Model ----
(***************************************************************************)
(* Session lifecycle and dev-server supervision of claude-squad            *)
(* (session/instance.go, app/app.go).  One Instance with its optional      *)
(* DevServer, the tmux sessions and the git worktree they own, and the     *)
(* operations the application and the poller run against them.  In Spec   *)
(* and SpecDev every operation is one atomic step of the control loop.     *)
(* The other specifications look at one part each: the output buffer       *)
(* (SpecOutput, SpecBuffer), combineErrors (SpecCombine), the list of      *)
(* instances (SpecHome), the goroutines of Run (SpecLoop), the timed       *)
(* commands (SpecTicks), the poller with fairness (SpecPoll),              *)
(* DevServer.Start statement by statement (SpecSteps), the names of the    *)
(* dev-server sessions (SpecFleet), the wait of startDevServer             *)
(* (SpecBackoff), the restore of an instance from its stored record        *)
(* (SpecRestore), the capture of the pane (SpecCapture) and the state      *)
(* files of package config (SpecState).                                    *)
(***************************************************************************)
EXTENDS Integers, Sequences, FiniteSets, TLC

\* inst, ds: the Instance and its DevServer.  world: what exists outside the
\* process.  hist: the last operation, what it returned and called.
\* output: DevServer.output; appends: the lines and builds it was given.
\* cleanupErrs: the errors a cleanup has collected.  home: the application's
\* state and list.  pc: the positions of the goroutines.  seen: what a
\* reader of the buffer saw.  timers: the sleeping commands and the context.
\* fleet: two instances and their dev-server sessions.  backoff: the wait
\* loop of startDevServer.  stored: the stored record of the instance.
\* pane: the pane of the dev-server session.  disk: the state files.
VARIABLES inst, ds, world, hist, output, appends, cleanupErrs, home, pc, seen, timers, fleet, backoff, stored, pane, disk

vars == <<inst, ds, world, hist, output, appends, cleanupErrs, home, pc, seen, timers, fleet, backoff, stored, pane, disk>>

-----------------------------------------------------------------------------
(* Bounds *)

\* CheckHealth stops counting crashes at this many (the counter is an int).
MaxCrashCount == 2

-----------------------------------------------------------------------------
(* Values *)

Statuses == {"Running", "Ready", "Loading", "Paused"}

DevServerStatuses ==
    {"DevServerStopped", "DevServerBuilding", "DevServerStarting",
     "DevServerRunning", "DevServerCrashed"}

\* Titles an instance can carry while it is being named.
Titles == {"", "t1"}

\* A pointer field is either nil or refers to its object.
Ptr == {"nil", "obj"}

\* The tmux session named after the instance, as the tmux server sees it:
\* never created, running with our PTY attached, running detached, or closed
\* by a kill-session.
TmuxStates == {"none", "attached", "detached", "closed"}

\* BuildCommand / DevCommand pairs a DevServerConfig is created with.
Configs ==
    { [BuildCommand |-> "", DevCommand |-> ""],
      [BuildCommand |-> "", DevCommand |-> "dev"],
      [BuildCommand |-> "build", DevCommand |-> "dev"] }

-----------------------------------------------------------------------------
(* Errors: an error is its message, kept as the sequence of its parts, so   *)
(* that "the text contains" is "the part occurs".                          *)

Nil == [isErr |-> FALSE, text |-> <<>>]

Errorf(msg) == [isErr |-> TRUE, text |-> <<msg>>]

\* fmt.Errorf("msg: %w", err)
Wrap(msg, err) == [isErr |-> TRUE, text |-> <<msg>> \o err.text]

\* fmt.Errorf("%v (cleanup error: %v)", err, cleanupErr)
WithCleanupError(err, cleanupErr) ==
    [isErr |-> TRUE,
     text |-> err.text \o <<" (cleanup error: ">> \o cleanupErr.text \o <<")">>]

Mentions(err, part) == \E n \in 1..Len(err.text) : err.text[n] = part

RECURSIVE JoinErrors(_)
JoinErrors(es) ==
    IF Len(es) = 0 THEN <<>>
    ELSE <<"\n  - ">> \o Head(es).text \o JoinErrors(Tail(es))

\* combineErrors as it would be if it reported only the first of several
\* errors.
combineErrorsFirstOnly(es) ==
    IF Len(es) = 0 THEN Nil
    ELSE IF Len(es) = 1 THEN es[1]
    ELSE [isErr |-> TRUE,
          text |-> <<"multiple cleanup errors occurred:">> \o JoinErrors(<<es[1]>>)]

combineErrors(es) ==
    IF Len(es) = 0 THEN Nil
    ELSE IF Len(es) = 1 THEN es[1]
    ELSE [isErr |-> TRUE,
          text |-> <<"multiple cleanup errors occurred:">> \o JoinErrors(es)]

\* append(errs, fmt.Errorf(msg, err)) when err != nil
AppendErr(es, msg, err) == IF err.isErr THEN Append(es, Wrap(msg, err)) ELSE es

-----------------------------------------------------------------------------
(* The consumed contracts: the tmux session and the git worktree.  `fails`  *)
(* is the outcome the environment gives the call.                          *)

DoesSessionExist(w) == w.tmux \in {"attached", "detached"}

TmuxStart(w, fails) ==
    IF fails THEN [world |-> w, err |-> Errorf("tmux start error")]
    ELSE [world |-> [w EXCEPT !.tmux = "attached"], err |-> Nil]

TmuxRestore(w, fails) ==
    IF fails \/ ~DoesSessionExist(w)
    THEN [world |-> w, err |-> Errorf("tmux restore error")]
    ELSE [world |-> [w EXCEPT !.tmux = "attached"], err |-> Nil]

TmuxClose(w, fails) ==
    IF fails THEN [world |-> w, err |-> Errorf("tmux close error")]
    ELSE [world |-> [w EXCEPT !.tmux = IF DoesSessionExist(w) THEN "closed" ELSE @],
          err |-> Nil]

TmuxDetachSafely(w, fails) ==
    IF fails THEN [world |-> w, err |-> Errorf("tmux detach error")]
    ELSE [world |-> [w EXCEPT !.tmux = IF @ = "attached" THEN "detached" ELSE @],
          err |-> Nil]

\* SendKeys, TapEnter, Attach, CapturePaneContent and SetDetachedSize need
\* a running session.
TmuxSend(w, fails) ==
    IF fails \/ ~DoesSessionExist(w) THEN Errorf("tmux send error") ELSE Nil

WorktreeSetup(w, fails) ==
    IF fails THEN [world |-> w, err |-> Errorf("git setup error")]
    ELSE [world |-> [w EXCEPT !.wtDir = TRUE], err |-> Nil]

WorktreeCleanup(w, fails) ==
    IF fails THEN [world |-> w, err |-> Errorf("git cleanup error")]
    ELSE [world |-> [w EXCEPT !.wtDir = FALSE, !.dirty = FALSE], err |-> Nil]

\* IsDirty reports the uncommitted changes of the worktree.
WorktreeIsDirty(w, fails) ==
    IF fails THEN [dirty |-> FALSE, err |-> Errorf("git status error")]
    ELSE [dirty |-> w.dirty, err |-> Nil]

\* CommitChanges makes one local commit of the changes; it does not push.
WorktreeCommitChanges(w, fails) ==
    IF fails THEN [world |-> w, err |-> Errorf("git commit error")]
    ELSE [world |-> [w EXCEPT !.dirty = FALSE], err |-> Nil]

\* IsBranchCheckedOut reports whether the branch is checked out in the
\* repository itself.
WorktreeIsBranchCheckedOut(w, fails) ==
    IF fails THEN [checked |-> FALSE, err |-> Errorf("git branch error")]
    ELSE [checked |-> w.checkedOut, err |-> Nil]

-----------------------------------------------------------------------------
(* Results of an operation: the objects after it, the error it returned     *)
(* and the calls it made on its collaborators, in order.                   *)

Res(i, d, w, err, calls) ==
    [inst |-> i, ds |-> d, world |-> w, err |-> err, calls |-> calls]

DsRes(d, w, err, calls) == [ds |-> d, world |-> w, err |-> err, calls |-> calls]

\* A call that cannot fail or whose result is dropped, and a call logged
\* with the error it returned.
Ok(fn) == <<[fn |-> fn, failed |-> FALSE]>>

Log(fn, err) == <<[fn |-> fn, failed |-> err.isErr]>>

-----------------------------------------------------------------------------
(* DevServer *)

\* The length appendOutput trims the buffer to.
MaxOutputLines == 100

\* appendOutput(line), on the buffer: append, then keep the last
\* MaxOutputLines entries.  An entry is the text it was given, as the
\* sequence of that text's lines.
Trim(o) ==
    IF Len(o) > MaxOutputLines
    THEN SubSeq(o, Len(o) - MaxOutputLines + 1, Len(o))
    ELSE o

appendOutput(out, line) == Trim(Append(out, line))

\* Output(): strings.Join(d.output, "\n"), as the sequence of its lines.
RECURSIVE Output(_)
Output(out) == IF out = <<>> THEN <<>> ELSE Head(out) \o Output(Tail(out))

\* NewDevServer(config, worktree, instance).  stopFails marks an
\* implementation of the Instance.DevServer interface whose Stop returns an
\* error; the DevServer of this package never does.
NewDevServer(config) ==
    [config |-> config, status |-> "DevServerStopped", session |-> "nil",
     crashCount |-> 0, stopFails |-> FALSE]

IsRunning(d) == d.status = "DevServerRunning" \/ d.status = "DevServerStarting"

\* startDevServer: kill a stale session of the same name, launch tmux
\* new-session, record the session object, wait until the session is
\* observable.  outcome: "ok", "ptyFails" (the launch fails) or "timeout".
startDevServer(d, w, outcome) ==
    LET stale == IF w.dsSession THEN Ok("tmux kill-session") ELSE <<>>
        w1 == [w EXCEPT !.dsSession = FALSE]
    IN  IF outcome = "ptyFails"
        THEN DsRes(d, w1, Errorf("failed to start tmux session"),
                   stale \o Log("tmux new-session", Errorf("pty error")))
        ELSE IF outcome = "timeout"
        THEN DsRes([d EXCEPT !.session = "obj"], w1,
                   Errorf("timed out waiting for tmux session"),
                   stale \o Ok("tmux new-session")
                       \o Log("session.DoesSessionExist",
                               Errorf("timed out waiting for tmux session")))
        ELSE DsRes([d EXCEPT !.session = "obj"], [w1 EXCEPT !.dsSession = TRUE],
                   Nil, stale \o Ok("tmux new-session") \o Ok("session.DoesSessionExist"))

\* DevServer.Start as it would be if a failure left the status where the
\* failing step had found it.
DevServerStartKeepsStatus(d, w, outcome) ==
    IF IsRunning(d)
    THEN DsRes(d, w, Errorf("dev server is already running"), <<>>)
    ELSE IF d.config.DevCommand = ""
    THEN DsRes(d, w, Errorf("dev command not configured"), <<>>)
    ELSE IF d.config.BuildCommand # "" /\ outcome = "buildFails"
    THEN DsRes([d EXCEPT !.status = "DevServerBuilding"], w,
               Wrap("build failed: ", Errorf("build command failed")),
               Log("sh -c build", Errorf("build command failed")))
    ELSE LET build == IF d.config.BuildCommand # "" THEN Ok("sh -c build") ELSE <<>>
             r == startDevServer(d, w, outcome)
         IN  IF r.err.isErr
             THEN DsRes([r.ds EXCEPT !.status = "DevServerStarting"], r.world,
                        Wrap("failed to start dev server: ", r.err), build \o r.calls)
             ELSE DsRes([r.ds EXCEPT !.status = "DevServerRunning"], r.world,
                        Nil, build \o r.calls)

\* DevServer.Start.  outcome: "ok", "buildFails", "ptyFails" or "timeout".
DevServerStart(d, w, outcome) ==
    IF IsRunning(d)
    THEN DsRes(d, w, Errorf("dev server is already running"), <<>>)
    ELSE IF d.config.DevCommand = ""
    THEN DsRes(d, w, Errorf("dev command not configured"), <<>>)
    ELSE IF d.config.BuildCommand # "" /\ outcome = "buildFails"
    THEN DsRes([d EXCEPT !.status = "DevServerStopped"], w,
               Wrap("build failed: ", Errorf("build command failed")),
               Log("sh -c build", Errorf("build command failed")))
    ELSE LET build == IF d.config.BuildCommand # "" THEN Ok("sh -c build") ELSE <<>>
             r == startDevServer(d, w, outcome)
         IN  IF r.err.isErr
             THEN DsRes([r.ds EXCEPT !.status = "DevServerStopped"], r.world,
                        Wrap("failed to start dev server: ", r.err), build \o r.calls)
             ELSE DsRes([r.ds EXCEPT !.status = "DevServerRunning"], r.world,
                        Nil, build \o r.calls)

\* DevServer.Stop as it would be if it kept the session reference.
DevServerStopKeepsSession(d, w, closeFails) ==
    IF d.session = "nil"
    THEN DsRes([d EXCEPT !.status = "DevServerStopped"], w, Nil, <<>>)
    ELSE DsRes([d EXCEPT !.status = "DevServerStopped"],
               [w EXCEPT !.dsSession = @ /\ closeFails],
               Nil,
               Ok("dev.SendKeys") \o Ok("sleep 2s")
                   \o (IF w.dsSession
                       THEN <<[fn |-> "dev.Close", failed |-> closeFails]>>
                       ELSE <<>>))

\* DevServer.Stop: interrupt, grace period, close the session if it is
\* still there (the close's error is dropped), forget it.
DevServerStop(d, w, closeFails) ==
    IF d.session = "nil"
    THEN DsRes([d EXCEPT !.status = "DevServerStopped"], w, Nil, <<>>)
    ELSE DsRes([d EXCEPT !.session = "nil", !.status = "DevServerStopped"],
               [w EXCEPT !.dsSession = @ /\ closeFails],
               Nil,
               Ok("dev.SendKeys") \o Ok("sleep 2s")
                   \o (IF w.dsSession
                       THEN <<[fn |-> "dev.Close", failed |-> closeFails]>>
                       ELSE <<>>))

\* i.DevServer.Stop() through the interface.
Stop(d, w, stopFails, closeFails) ==
    IF d.stopFails /\ stopFails
    THEN DsRes(d, w, Errorf("dev server stop error"), <<>>)
    ELSE DevServerStop(d, w, closeFails)

\* CheckHealth as it would be without the early return for a status other
\* than Running.
CheckHealthAnyStatus(d, w) ==
    IF d.session = "nil" \/ ~w.dsSession
    THEN [d EXCEPT !.crashCount = @ + 1, !.status = "DevServerCrashed"]
    ELSE d

\* DevServer.CheckHealth
CheckHealth(d, w) ==
    IF d.status # "DevServerRunning" THEN d
    ELSE IF d.session = "nil" \/ ~w.dsSession
    THEN [d EXCEPT !.crashCount = @ + 1, !.status = "DevServerCrashed"]
    ELSE d

-----------------------------------------------------------------------------
(* Instance *)

\* NewInstance(opts): Status Ready, nothing allocated.
NewInstance ==
    [Title |-> "", Branch |-> "", Status |-> "Ready", AutoYes |-> FALSE,
     started |-> FALSE, tmuxSession |-> "nil", gitWorktree |-> "nil",
     DevServer |-> "nil"]

\* Outcomes of the calls Kill makes: TRUE where the call fails.
KillOutcomes ==
    [stop : BOOLEAN, devClose : BOOLEAN, close : BOOLEAN, cleanup : BOOLEAN]

\* Every call of Kill succeeds.
NoFailure == [stop |-> FALSE, devClose |-> FALSE, close |-> FALSE, cleanup |-> FALSE]

\* The cleanup of Kill: stop the dev server, close the session, clean up
\* the worktree; every error is collected and none ends the cleanup.
KillCleanup(i, d, w, k) ==
    LET s1 == IF i.DevServer # "nil"
              THEN Stop(d, w, k.stop, k.devClose)
              ELSE DsRes(d, w, Nil, <<>>)
        c1 == IF i.DevServer # "nil"
              THEN Log("DevServer.Stop", s1.err) \o s1.calls
              ELSE <<>>
        e1 == AppendErr(<<>>, "failed to stop dev server: ", s1.err)
        s2 == IF i.tmuxSession # "nil"
              THEN TmuxClose(s1.world, k.close)
              ELSE [world |-> s1.world, err |-> Nil]
        c2 == IF i.tmuxSession # "nil" THEN c1 \o Log("tmux.Close", s2.err) ELSE c1
        e2 == AppendErr(e1, "failed to close tmux session: ", s2.err)
        s3 == IF i.gitWorktree # "nil"
              THEN WorktreeCleanup(s2.world, k.cleanup)
              ELSE [world |-> s2.world, err |-> Nil]
        c3 == IF i.gitWorktree # "nil" THEN c2 \o Log("git.Cleanup", s3.err) ELSE c2
        e3 == AppendErr(e2, "failed to cleanup git worktree: ", s3.err)
    IN  Res(i, s1.ds, s3.world, combineErrors(e3), c3)

\* Kill as it would be if the first failing step ended it.
KillAbortsOnError(i, d, w, k) ==
    LET all == KillCleanup(i, d, w, k)
        stopOnly == KillCleanup([i EXCEPT !.tmuxSession = "nil", !.gitWorktree = "nil"],
                                d, w, k)
        noCleanup == KillCleanup([i EXCEPT !.gitWorktree = "nil"], d, w, k)
    IN  IF ~i.started THEN Res(i, d, w, Nil, <<>>)
        ELSE IF stopOnly.err.isErr THEN [stopOnly EXCEPT !.inst = i]
        ELSE IF noCleanup.err.isErr THEN [noCleanup EXCEPT !.inst = i]
        ELSE all

\* Kill as it would be without its check of started.
KillIgnoresStarted(i, d, w, k) == KillCleanup(i, d, w, k)

\* Instance.Kill
Kill(i, d, w, k) ==
    IF ~i.started THEN Res(i, d, w, Nil, <<>>)
    ELSE KillCleanup(i, d, w, k)

\* Outcomes of the calls Start makes: TRUE where the call fails.
\* Only the first failing call matters, and the cleanup that follows a
\* failed session start.
StartOutcomes ==
    { o \in [create : BOOLEAN, setup : BOOLEAN, start : BOOLEAN,
              restore : BOOLEAN, cleanup : BOOLEAN] :
        /\ o.create => ~(o.setup \/ o.start \/ o.restore)
        /\ o.setup => ~(o.start \/ o.restore)
        /\ o.restore => ~o.start
        /\ o.cleanup => o.start }

\* The deferred handler as it would be if it set started on every path.
StartDeferredAlwaysStarted(i, d, w, setupErr, calls, k) ==
    Res([i EXCEPT !.started = TRUE], d, w, setupErr, calls)

\* The deferred handler of Start: roll back through Kill on a setup error,
\* set started otherwise.
StartDeferred(i, d, w, setupErr, calls, k) ==
    IF setupErr.isErr
    THEN LET r == Kill(i, d, w, k)
         IN  Res(r.inst, r.ds, r.world,
                 IF r.err.isErr THEN WithCleanupError(setupErr, r.err) ELSE setupErr,
                 calls \o r.calls)
    ELSE Res([i EXCEPT !.started = TRUE], d, w, Nil, calls)

\* Start once the title is known not to be empty.
StartResources(i, d, w, firstTimeSetup, o, k) ==
    LET i1 == [i EXCEPT !.tmuxSession = "obj"]
    IN  IF firstTimeSetup /\ o.create
        THEN Res(i1, d, w,
                 Wrap("failed to create git worktree: ", Errorf("git create error")),
                 Log("git.NewGitWorktree", Errorf("git create error")))
        ELSE IF ~firstTimeSetup
        THEN LET r == TmuxRestore(w, o.restore)
             IN  IF r.err.isErr
                 THEN StartDeferred(i1, d, r.world,
                          Wrap("failed to restore existing session: ", r.err),
                          Log("tmux.Restore", r.err), k)
                 ELSE StartDeferred([i1 EXCEPT !.Status = "Running"], d, r.world,
                          Nil, Log("tmux.Restore", r.err), k)
        ELSE
          LET i2 == [i1 EXCEPT !.gitWorktree = "obj", !.Branch = "branch"]
              r1 == WorktreeSetup(w, o.setup)
              r2 == TmuxStart(r1.world, o.start)
              r3 == WorktreeCleanup(r2.world, o.cleanup)
              c1 == Ok("git.NewGitWorktree") \o Log("git.Setup", r1.err)
              c2 == c1 \o Log("tmux.Start", r2.err)
          IN  IF r1.err.isErr
              THEN StartDeferred(i2, d, r1.world,
                       Wrap("failed to setup git worktree: ", r1.err), c1, k)
              ELSE IF r2.err.isErr
              THEN StartDeferred(i2, d, r3.world,
                       Wrap("failed to start new session: ",
                            IF r3.err.isErr THEN WithCleanupError(r2.err, r3.err)
                            ELSE r2.err),
                       c2 \o Log("git.Cleanup", r3.err), k)
              ELSE StartDeferred([i2 EXCEPT !.Status = "Running"], d, r2.world, Nil,
                       c2, k)

\* Start as it would be without its check of the title.
StartSkipsTitleCheck(i, d, w, firstTimeSetup, o, k) ==
    StartResources(i, d, w, firstTimeSetup, o, k)

\* Instance.Start(firstTimeSetup)
Start(i, d, w, firstTimeSetup, o, k) ==
    IF i.Title = ""
    THEN Res(i, d, w, Errorf("instance title cannot be empty"), <<>>)
    ELSE StartResources(i, d, w, firstTimeSetup, o, k)

\* Outcomes of the calls Pause makes: TRUE where the call fails.  A failed
\* commit ends Pause, so it comes with no later failure.
PauseOutcomes ==
    { o \in [isDirty : BOOLEAN, commit : BOOLEAN, detach : BOOLEAN] :
        o.commit => (~o.isDirty /\ ~o.detach) }

\* PauseCommit as it would be if it committed whatever IsDirty answered.
PauseCommitsCleanWorktree(w, o) ==
    LET rd == WorktreeIsDirty(w, o.isDirty)
        rc == WorktreeCommitChanges(w, o.commit)
    IN  [world |-> rc.world,
         errs |-> AppendErr(AppendErr(<<>>, "failed to check if worktree is dirty: ",
                                      rd.err),
                            "failed to commit changes: ", rc.err),
         calls |-> Log("git.IsDirty", rd.err) \o Log("git.CommitChanges", rc.err),
         commitFailed |-> rc.err.isErr]

\* The first part of Pause: ask whether the worktree is dirty and, if it
\* is, commit its changes locally.
PauseCommit(w, o) ==
    LET rd == WorktreeIsDirty(w, o.isDirty)
        e1 == AppendErr(<<>>, "failed to check if worktree is dirty: ", rd.err)
        commits == ~rd.err.isErr /\ rd.dirty
        rc == IF commits THEN WorktreeCommitChanges(w, o.commit)
              ELSE [world |-> w, err |-> Nil]
    IN  [world |-> rc.world,
         errs |-> AppendErr(e1, "failed to commit changes: ", rc.err),
         calls |-> Log("git.IsDirty", rd.err)
                       \o (IF commits THEN Log("git.CommitChanges", rc.err) ELSE <<>>),
         commitFailed |-> rc.err.isErr]

\* PauseDetach as it would be if Pause removed the worktree once the
\* session is detached.
PauseRemovesWorktree(i, d, w, o, errs, calls) ==
    LET r == TmuxDetachSafely(w, o.detach)
        rc == WorktreeCleanup(r.world, FALSE)
        e2 == AppendErr(errs, "failed to detach tmux session: ", r.err)
        c2 == calls \o Log("tmux.DetachSafely", r.err) \o Log("git.Cleanup", rc.err)
    IN  IF combineErrors(e2).isErr
        THEN Res(i, d, rc.world, combineErrors(e2), c2)
        ELSE Res([i EXCEPT !.Status = "Paused"], d, rc.world, Nil,
                 c2 \o Ok("clipboard.WriteAll"))

\* The second part of Pause: detach the session, return the errors
\* collected so far or set Paused and copy the worktree path.
PauseDetach(i, d, w, o, errs, calls) ==
    LET r == TmuxDetachSafely(w, o.detach)
        e2 == AppendErr(errs, "failed to detach tmux session: ", r.err)
        c2 == calls \o Log("tmux.DetachSafely", r.err)
    IN  IF combineErrors(e2).isErr
        THEN Res(i, d, r.world, combineErrors(e2), c2)
        ELSE Res([i EXCEPT !.Status = "Paused"], d, r.world, Nil,
                 c2 \o Ok("clipboard.WriteAll"))

\* Pause once the instance is known to be started and not paused; a
\* failed commit ends it.
PauseSteps(i, d, w, o) ==
    LET c == PauseCommit(w, o)
    IN  IF c.commitFailed
        THEN Res(i, d, c.world, combineErrors(c.errs), c.calls)
        ELSE PauseDetach(i, d, c.world, o, c.errs, c.calls)

\* Pause as it would be without its check of Status.
PauseIgnoresPaused(i, d, w, o) ==
    IF ~i.started
    THEN Res(i, d, w, Errorf("cannot pause instance that has not been started"), <<>>)
    ELSE PauseSteps(i, d, w, o)

\* Instance.Pause
Pause(i, d, w, o) ==
    IF ~i.started
    THEN Res(i, d, w, Errorf("cannot pause instance that has not been started"), <<>>)
    ELSE IF i.Status = "Paused"
    THEN Res(i, d, w, Errorf("instance is already paused"), <<>>)
    ELSE PauseSteps(i, d, w, o)

\* Outcomes of the calls Resume makes: TRUE where the call fails.  Only
\* the first failure before the session is reached matters.
ResumeOutcomes ==
    { o \in [check : BOOLEAN, stat : BOOLEAN, setup : BOOLEAN,
              restore : BOOLEAN, start : BOOLEAN, cleanup : BOOLEAN] :
        /\ o.check => ~(o.stat \/ o.setup \/ o.restore \/ o.start)
        /\ o.stat => ~(o.setup \/ o.restore \/ o.start)
        /\ o.setup => ~(o.restore \/ o.start)
        /\ o.cleanup => o.start }

\* ResumeStart as it would be if a failed start left the worktree alone.
ResumeStartKeepsWorktree(i, d, w, o, calls) ==
    LET r == TmuxStart(w, o.start)
    IN  IF r.err.isErr
        THEN Res(i, d, r.world, Wrap("failed to start new session: ", r.err),
                 calls \o Log("tmux.Start", r.err))
        ELSE Res([i EXCEPT !.Status = "Running"], d, r.world, Nil,
                 calls \o Log("tmux.Start", r.err))

\* The two places where Resume starts a fresh session: on failure the
\* worktree is cleaned up and the error returned.
ResumeStart(i, d, w, o, calls) ==
    LET r == TmuxStart(w, o.start)
        rc == WorktreeCleanup(r.world, o.cleanup)
    IN  IF r.err.isErr
        THEN Res(i, d, rc.world,
                 Wrap("failed to start new session: ",
                      IF rc.err.isErr THEN WithCleanupError(r.err, rc.err) ELSE r.err),
                 calls \o Log("tmux.Start", r.err) \o Log("git.Cleanup", rc.err))
        ELSE Res([i EXCEPT !.Status = "Running"], d, r.world, Nil,
                 calls \o Log("tmux.Start", r.err))

\* Resume from the session on: restore the session that still exists,
\* start a new one if there is none or the restore fails.
ResumeSession(i, d, w, o, calls) ==
    IF DoesSessionExist(w)
    THEN LET rr == TmuxRestore(w, o.restore)
         IN  IF rr.err.isErr
             THEN ResumeStart(i, d, rr.world, o, calls \o Log("tmux.Restore", rr.err))
             ELSE Res([i EXCEPT !.Status = "Running"], d, rr.world, Nil,
                      calls \o Log("tmux.Restore", rr.err))
    ELSE ResumeStart(i, d, w, o, calls)

\* ResumeWorktree as it would be if it set the worktree up on every call.
ResumeWorktreeAlwaysSetup(i, d, w, o, calls) ==
    LET rs == WorktreeSetup(w, o.setup)
        c1 == calls \o Ok("os.Stat") \o Log("git.Setup", rs.err)
    IN  IF rs.err.isErr
        THEN Res(i, d, rs.world, Wrap("failed to setup git worktree: ", rs.err), c1)
        ELSE ResumeSession(i, d, rs.world, o, c1)

\* Resume from the worktree on: set the worktree up again if its directory
\* is gone, leave it alone if it is there.
ResumeWorktree(i, d, w, o, calls) ==
    IF w.wtDir /\ o.stat
    THEN Res(i, d, w,
             Wrap("failed to check if worktree exists: ", Errorf("stat error")),
             calls \o Log("os.Stat", Errorf("stat error")))
    ELSE
      LET rs == IF w.wtDir THEN [world |-> w, err |-> Nil]
                ELSE WorktreeSetup(w, o.setup)
          c1 == calls \o Ok("os.Stat")
                    \o (IF w.wtDir THEN <<>> ELSE Log("git.Setup", rs.err))
      IN  IF rs.err.isErr
          THEN Res(i, d, rs.world, Wrap("failed to setup git worktree: ", rs.err), c1)
          ELSE ResumeSession(i, d, rs.world, o, c1)

\* ResumeSteps as it would be if it dropped the answer of the branch check.
ResumeIgnoresCheckedOut(i, d, w, o) ==
    LET rb == WorktreeIsBranchCheckedOut(w, o.check)
    IN  IF rb.err.isErr
        THEN Res(i, d, w, Wrap("failed to check if branch is checked out: ", rb.err),
                 Log("git.IsBranchCheckedOut", rb.err))
        ELSE ResumeWorktree(i, d, w, o, Ok("git.IsBranchCheckedOut"))

\* Resume once the instance is known to be started and paused.
ResumeSteps(i, d, w, o) ==
    LET rb == WorktreeIsBranchCheckedOut(w, o.check)
    IN  IF rb.err.isErr
        THEN Res(i, d, w, Wrap("failed to check if branch is checked out: ", rb.err),
                 Log("git.IsBranchCheckedOut", rb.err))
        ELSE IF rb.checked
        THEN Res(i, d, w,
                 Errorf("cannot resume: branch is checked out, please switch to a different branch"),
                 Ok("git.IsBranchCheckedOut"))
        ELSE ResumeWorktree(i, d, w, o, Ok("git.IsBranchCheckedOut"))

\* Instance.Resume
Resume(i, d, w, o) ==
    IF ~i.started
    THEN Res(i, d, w, Errorf("cannot resume instance that has not been started"), <<>>)
    ELSE IF i.Status # "Paused"
    THEN Res(i, d, w, Errorf("can only resume paused instances"), <<>>)
    ELSE ResumeSteps(i, d, w, o)

\* The pause of SendPrompt between the text and Enter, in milliseconds.
PromptDelayMs == 100

\* The pause, when there is one.
Sleep(ms) == IF ms > 0 THEN Ok("time.Sleep") ELSE <<>>

\* SendPrompt as it would be if it sent Enter right after the text.
SendPromptWithoutDelay(i, d, w, keysFail, enterFails) ==
    LET keys == TmuxSend(w, keysFail)
        enter == TmuxSend(w, enterFails)
    IN  IF ~i.started THEN Res(i, d, w, Errorf("instance not started"), <<>>)
        ELSE IF keys.isErr
        THEN Res(i, d, w, Wrap("error sending keys to tmux session: ", keys),
                 Log("tmux.SendKeys", keys))
        ELSE Res(i, d, w,
                 IF enter.isErr THEN Wrap("error tapping enter: ", enter) ELSE Nil,
                 Ok("tmux.SendKeys") \o Log("tmux.TapEnter", enter))

\* Instance.SendPrompt(prompt): the text, a pause, then Enter.
SendPrompt(i, d, w, keysFail, enterFails) ==
    LET keys == TmuxSend(w, keysFail)
        enter == TmuxSend(w, enterFails)
    IN  IF ~i.started THEN Res(i, d, w, Errorf("instance not started"), <<>>)
        ELSE IF i.tmuxSession = "nil"
        THEN Res(i, d, w, Errorf("tmux session not initialized"), <<>>)
        ELSE IF keys.isErr
        THEN Res(i, d, w, Wrap("error sending keys to tmux session: ", keys),
                 Log("tmux.SendKeys", keys))
        ELSE Res(i, d, w,
                 IF enter.isErr THEN Wrap("error tapping enter: ", enter) ELSE Nil,
                 Ok("tmux.SendKeys") \o Sleep(PromptDelayMs)
                     \o Log("tmux.TapEnter", enter))

\* Instance.SendKeys(keys)
SendKeys(i, d, w, fails) ==
    IF ~i.started \/ i.Status = "Paused"
    THEN Res(i, d, w,
             Errorf("cannot send keys to instance that has not been started or is paused"),
             <<>>)
    ELSE Res(i, d, w, TmuxSend(w, fails), Log("tmux.SendKeys", TmuxSend(w, fails)))

\* Attach as it would be without its check of started.
AttachUnguarded(i, d, w, fails) ==
    Res(i, d, w, TmuxSend(w, fails), Log("tmux.Attach", TmuxSend(w, fails)))

\* Instance.Attach
Attach(i, d, w, fails) ==
    IF ~i.started
    THEN Res(i, d, w, Errorf("cannot attach instance that has not been started"), <<>>)
    ELSE Res(i, d, w, TmuxSend(w, fails), Log("tmux.Attach", TmuxSend(w, fails)))

\* Instance.Preview: the content of the pane; nothing, and no error, for an
\* instance that is not started or is paused.
Preview(i, d, w, fails) ==
    IF ~i.started \/ i.Status = "Paused" THEN Res(i, d, w, Nil, <<>>)
    ELSE Res(i, d, w, TmuxSend(w, fails),
             Log("tmux.CapturePaneContent", TmuxSend(w, fails)))

\* Instance.SetPreviewSize(width, height)
SetPreviewSize(i, d, w, fails) ==
    IF ~i.started \/ i.Status = "Paused"
    THEN Res(i, d, w,
             Errorf("cannot set preview size for instance that has not been started or is paused"),
             <<>>)
    ELSE Res(i, d, w, TmuxSend(w, fails),
             Log("tmux.SetDetachedSize", TmuxSend(w, fails)))

\* Instance.RepoName
RepoName(i, d, w) ==
    IF ~i.started
    THEN Res(i, d, w,
             Errorf("cannot get repo name for instance that has not been started"), <<>>)
    ELSE Res(i, d, w, Nil, Ok("git.GetRepoName"))

\* TapEnter as it would be without its check of AutoYes.
TapEnterWithoutAutoYes(i, d, w, fails) ==
    IF ~i.started THEN Res(i, d, w, Nil, <<>>)
    ELSE Res(i, d, w, Nil, Log("tmux.TapEnter", TmuxSend(w, fails)))

\* Instance.TapEnter: only with AutoYes; its error is logged, not returned.
TapEnter(i, d, w, fails) ==
    IF ~i.started \/ ~i.AutoYes THEN Res(i, d, w, Nil, <<>>)
    ELSE Res(i, d, w, Nil, Log("tmux.TapEnter", TmuxSend(w, fails)))

\* SetTitle as it would be without its check of started.
SetTitleAlways(i, d, w, title) == Res([i EXCEPT !.Title = title], d, w, Nil, <<>>)

\* Instance.SetTitle(title)
SetTitle(i, d, w, title) ==
    IF i.started
    THEN Res(i, d, w, Errorf("cannot change title of a started instance"), <<>>)
    ELSE Res([i EXCEPT !.Title = title], d, w, Nil, <<>>)

\* The metadata tick as it would be if it skipped only the instances that
\* are not started.
TickPollsPaused(i, d, w, updated, prompt, enterFails) ==
    IF ~i.started THEN Res(i, d, w, Nil, <<>>)
    ELSE
      LET up == updated /\ DoesSessionExist(w)
          pr == prompt /\ DoesSessionExist(w)
          r == IF up THEN Res([i EXCEPT !.Status = "Running"], d, w, Nil, <<>>)
               ELSE IF pr THEN TapEnter(i, d, w, enterFails)
               ELSE Res([i EXCEPT !.Status = "Ready"], d, w, Nil, <<>>)
          c == Ok("tmux.HasUpdated") \o r.calls \o Ok("git.Diff")
      IN  IF i.DevServer # "nil"
          THEN Res(r.inst, CheckHealth(d, w), w, Nil, c \o Ok("DevServer.CheckHealth"))
          ELSE Res(r.inst, d, w, Nil, c)

\* One instance's share of the metadata tick (tickUpdateMetadataMessage).
\* updated, prompt: what HasUpdated reports when the session is there.
TickUpdateMetadata(i, d, w, updated, prompt, enterFails) ==
    IF ~i.started \/ i.Status = "Paused" THEN Res(i, d, w, Nil, <<>>)
    ELSE
      LET up == updated /\ DoesSessionExist(w)
          pr == prompt /\ DoesSessionExist(w)
          r == IF up THEN Res([i EXCEPT !.Status = "Running"], d, w, Nil, <<>>)
               ELSE IF pr THEN TapEnter(i, d, w, enterFails)
               ELSE Res([i EXCEPT !.Status = "Ready"], d, w, Nil, <<>>)
          c == Ok("tmux.HasUpdated") \o r.calls \o Ok("git.Diff")
      IN  IF i.DevServer # "nil"
          THEN Res(r.inst, CheckHealth(d, w), w, Nil, c \o Ok("DevServer.CheckHealth"))
          ELSE Res(r.inst, d, w, Nil, c)

\* home.handleDevServerStart.  settings.kind: "loadErr", "none" (no dev
\* command in the repository's settings: the configuration overlay is shown),
\* or "ok" with the config the settings hold.
handleDevServerStart(i, d, w, settings, outcome) ==
    IF i.DevServer # "nil"
       /\ d.status \in {"DevServerRunning", "DevServerStarting", "DevServerBuilding"}
    THEN Res(i, d, w, Nil, <<>>)
    ELSE IF i.DevServer = "nil" /\ settings.kind = "loadErr"
    THEN Res(i, d, w, Errorf("failed to load dev server settings"), <<>>)
    ELSE IF i.DevServer = "nil" /\ settings.kind = "none"
    THEN Res(i, d, w, Nil, Ok("showDevServerConfigOverlay"))
    ELSE
      LET d1 == IF i.DevServer = "nil" THEN NewDevServer(settings.config) ELSE d
          r == DevServerStart(d1, w, outcome)
      IN  Res([i EXCEPT !.DevServer = "obj"], r.ds, r.world, r.err,
              Log("DevServer.Start", r.err) \o r.calls)

-----------------------------------------------------------------------------
(* The state machine *)

\* What timers holds for a command that is not running.
NotPending == 0 - 1

\* The DevServer record while Instance.DevServer is nil.
NoDevServer == NewDevServer([BuildCommand |-> "", DevCommand |-> ""])

Init ==
    /\ inst = NewInstance
    /\ ds = NoDevServer
    /\ world = [tmux |-> "none", wtDir |-> FALSE, dirty |-> FALSE,
                checkedOut |-> FALSE, dsSession |-> FALSE]
    /\ hist = [op |-> "NewInstance", err |-> Nil, calls |-> <<>>, kills |-> "none"]
    /\ output = <<>>
    /\ appends = [lines |-> 0, builds |-> 0]
    /\ cleanupErrs = <<>>
    /\ home = [state |-> "unbuilt", instances |-> 0, promptAfterName |-> FALSE]
    /\ pc = [loop |-> "idle", signal |-> "waiting", quit |-> FALSE,
             writer |-> "idle", reader |-> "idle"]
    /\ seen = [by |-> "none", len |-> 0, locked |-> TRUE]
    /\ timers = [ctx |-> "live", metadata |-> NotPending, preview |-> NotPending,
                 keyup |-> NotPending, hideErr |-> NotPending]
    /\ fleet = [title |-> [k \in {1, 2} |-> <<>>], started |-> [k \in {1, 2} |-> FALSE], session |-> [k \in {1, 2} |-> <<>>], killed |-> 0]
    /\ backoff = [state |-> "idle", sleepDuration |-> 0, elapsed |-> 0, sleptAt |-> 0, exists |-> FALSE]
    /\ stored = [present |-> FALSE,
                 data |-> [Title |-> "", Branch |-> "", Status |-> "Ready",
                           AutoYes |-> FALSE, hasWorktree |-> FALSE,
                           hasDevServer |-> FALSE,
                           DevServer |-> [Config |-> NoDevServer.config,
                                          Status |-> "DevServerStopped",
                                          CrashCount |-> 0]]]
    /\ pane = [content |-> <<>>, last |-> <<>>, prev |-> <<>>, before |-> <<>>, updates |-> 0, op |-> "none"]
    /\ disk = [legacy |-> [exists |-> FALSE, instances |-> <<>>], repoFile |-> [exists |-> FALSE, instances |-> <<>>], loaded |-> <<>>, saved |-> [exists |-> FALSE, instances |-> <<>>], running |-> FALSE, op |-> "none"]

\* What an operation leaves behind: the objects are as it left them, and
\* hist holds what it returned and called.  kills: whether a Kill has run
\* on the started instance, and whether one of them returned no error
\* ("clean").
Effects(op, r) ==
    /\ inst' = r.inst
    /\ ds' = r.ds
    /\ world' = r.world
    /\ hist' = [op |-> op, err |-> r.err, calls |-> r.calls,
                kills |-> IF op = "Kill" /\ inst.started
                          THEN (IF hist.kills = "clean" \/ ~r.err.isErr
                                THEN "clean" ELSE "failed")
                          ELSE hist.kills]

\* An operation ran on the control loop, start to end.
Ran(op, r) ==
    /\ Effects(op, r)
    /\ UNCHANGED <<output, appends, cleanupErrs, home, pc, seen, timers, fleet, backoff, stored, pane, disk>>

\* The title is typed while the instance is being created.
DoSetTitle == \E t \in Titles : Ran("SetTitle", SetTitle(inst, ds, world, t))

\* Start(true) is called on the instance being created, which is not started;
\* when it succeeds the application's autoYes flag is copied to the instance.
DoStart ==
    /\ ~inst.started
    /\ \E o \in {x \in StartOutcomes : ~x.restore},
          k \in IF inst.started THEN KillOutcomes ELSE {NoFailure},
          autoYes \in BOOLEAN :
           LET r == Start(inst, ds, world, TRUE, o, k)
           IN  Ran("Start",
                   IF r.err.isErr THEN r
                   ELSE [r EXCEPT !.inst.AutoYes = autoYes])

DoKill == \E k \in KillOutcomes : Ran("Kill", Kill(inst, ds, world, k))

DoPause == \E o \in PauseOutcomes : Ran("Pause", Pause(inst, ds, world, o))

DoResume == \E o \in ResumeOutcomes : Ran("Resume", Resume(inst, ds, world, o))

DoSendPrompt ==
    \E keysFail \in BOOLEAN, enterFails \in BOOLEAN :
        Ran("SendPrompt", SendPrompt(inst, ds, world, keysFail, enterFails))

DoSendKeys == \E fails \in BOOLEAN : Ran("SendKeys", SendKeys(inst, ds, world, fails))

DoAttach == \E fails \in BOOLEAN : Ran("Attach", Attach(inst, ds, world, fails))

DoPreview == \E fails \in BOOLEAN : Ran("Preview", Preview(inst, ds, world, fails))

DoSetPreviewSize ==
    \E fails \in BOOLEAN : Ran("SetPreviewSize", SetPreviewSize(inst, ds, world, fails))

DoRepoName == Ran("RepoName", RepoName(inst, ds, world))

\* The 500ms metadata tick.
Tick ==
    \E updated \in BOOLEAN, prompt \in BOOLEAN, enterFails \in BOOLEAN :
        LET r == TickUpdateMetadata(inst, ds, world, updated, prompt, enterFails)
        IN  /\ r.ds.crashCount <= MaxCrashCount
            /\ Ran("Tick", r)

\* What LoadDevServerSettings returns.
SettingsInputs ==
    {[kind |-> k, config |-> NoDevServer.config] : k \in {"loadErr", "none"}}
        \cup {[kind |-> "ok", config |-> c] : c \in Configs \ {NoDevServer.config}}

StartResults == {"ok", "buildFails", "ptyFails", "timeout"}

DoHandleDevServerStart ==
    \E settings \in SettingsInputs, outcome \in StartResults :
        Ran("handleDevServerStart",
            handleDevServerStart(inst, ds, world, settings, outcome))

\* DevServer.Start called directly on the instance's DevServer.
DoDevServerStart ==
    /\ inst.DevServer # "nil"
    /\ \E outcome \in StartResults :
           LET r == DevServerStart(ds, world, outcome)
           IN  Ran("DevServer.Start", Res(inst, r.ds, r.world, r.err, r.calls))

\* home.handleDevServerStop
DoDevServerStop ==
    /\ inst.DevServer # "nil"
    /\ \E stopFails \in BOOLEAN, closeFails \in BOOLEAN :
           LET r == Stop(ds, world, stopFails, closeFails)
           IN  Ran("DevServer.Stop", Res(inst, r.ds, r.world, r.err, r.calls))

\* DevServer.SetStatus(status)
DevServerSetStatus ==
    /\ inst.DevServer # "nil"
    /\ \E s \in DevServerStatuses :
           Ran("DevServer.SetStatus",
               Res(inst, [ds EXCEPT !.status = s], world, Nil, <<>>))

\* The DevServer field is assigned directly, as the tests do with
\* &DevServer{}: a zero DevServer, or another implementation of the
\* interface whose Stop fails.
AssignDevServer ==
    /\ inst.DevServer = "nil"
    /\ \E stopFails \in BOOLEAN :
           Ran("AssignDevServer",
               Res([inst EXCEPT !.DevServer = "obj"],
                   [NoDevServer EXCEPT !.stopFails = stopFails],
                   world, Nil, <<>>))

\* The dev server's process exits and takes its session with it.
DevSessionExits ==
    /\ world.dsSession
    /\ world' = [world EXCEPT !.dsSession = FALSE]
    /\ hist' = [hist EXCEPT !.op = "external", !.err = Nil, !.calls = <<>>]
    /\ UNCHANGED <<inst, ds, output, appends, cleanupErrs, home, pc, seen, timers, fleet, backoff, stored, pane, disk>>

\* What happens outside an operation leaves the objects alone.
External(w) ==
    /\ world' = w
    /\ hist' = [hist EXCEPT !.op = "external", !.err = Nil, !.calls = <<>>]
    /\ UNCHANGED <<inst, ds, output, appends, cleanupErrs, home, pc, seen, timers, fleet, backoff, stored, pane, disk>>

\* The agent in the session changes files of the worktree.
WorktreeEdited ==
    /\ world.wtDir
    /\ ~world.dirty
    /\ External([world EXCEPT !.dirty = TRUE])

\* The user checks the branch of a paused instance out in the repository,
\* or switches away from it again.
BranchCheckedOut ==
    /\ inst.Status = "Paused" \/ world.checkedOut
    /\ External([world EXCEPT !.checkedOut = ~@])

\* The lifecycle of an instance, with the poller ticking.
Next ==
    \/ DoSetTitle
    \/ DoStart
    \/ DoKill
    \/ DoPause
    \/ DoResume
    \/ DoSendPrompt
    \/ DoSendKeys
    \/ DoAttach
    \/ DoPreview
    \/ DoSetPreviewSize
    \/ DoRepoName
    \/ Tick
    \/ AssignDevServer
    \/ DoHandleDevServerStart
    \/ WorktreeEdited
    \/ BranchCheckedOut

Spec == Init /\ [][Next]_vars

\* The dev server of an instance, with the poller ticking.
NextDev ==
    \/ DoSetTitle
    \/ DoStart
    \/ Tick
    \/ AssignDevServer
    \/ DoHandleDevServerStart
    \/ DoDevServerStart
    \/ DoDevServerStop
    \/ DevServerSetStatus
    \/ DevSessionExits

SpecDev == Init /\ [][NextDev]_vars

TypeOK ==
    /\ inst.Title \in Titles
    /\ inst.Status \in Statuses
    /\ inst.started \in BOOLEAN
    /\ inst.tmuxSession \in Ptr
    /\ inst.gitWorktree \in Ptr
    /\ inst.DevServer \in Ptr
    /\ ds.status \in DevServerStatuses
    /\ ds.session \in Ptr
    /\ ds.crashCount \in 0..MaxCrashCount
    /\ world.tmux \in TmuxStates
    /\ world.wtDir \in BOOLEAN
    /\ world.dirty \in BOOLEAN
    /\ world.checkedOut \in BOOLEAN
    /\ world.dsSession \in BOOLEAN

-----------------------------------------------------------------------------
(* The output buffer of a DevServer *)

\* Lines handed to appendOutput, and builds run, in a behaviour.
MaxAppends == 102
MaxBuilds == 1

\* Lines are named by their order of arrival: the n lines that arrive after
\* `from` lines have arrived.
Arriving(from, n) == [k \in 1..n |-> from + k]

\* appendOutput(line) as UpdateOutputFromSession, startDevServer and
\* CheckHealth call it: with one line.
DoAppendOutput ==
    /\ appends.lines < MaxAppends
    /\ output' = appendOutput(output, Arriving(appends.lines, 1))
    /\ appends' = [appends EXCEPT !.lines = @ + 1]
    /\ hist' = [hist EXCEPT !.op = "appendOutput", !.err = Nil, !.calls = <<>>]
    /\ UNCHANGED <<inst, ds, world, cleanupErrs, home, pc, seen, timers, fleet, backoff, stored, pane, disk>>

\* runBuild: whatever the build command printed is handed to appendOutput
\* as one string, whether the build failed or not.
DoRunBuild ==
    /\ appends.builds < MaxBuilds
    /\ \E multiline \in BOOLEAN, fails \in BOOLEAN :
         LET n == IF multiline THEN 2 ELSE 1
             err == IF fails THEN Errorf("build command failed") ELSE Nil
         IN  /\ appends.lines + n <= MaxAppends
             /\ output' = appendOutput(output, Arriving(appends.lines, n))
             /\ appends' = [lines |-> appends.lines + n, builds |-> appends.builds + 1]
             /\ hist' = [hist EXCEPT !.op = "runBuild", !.err = err,
                                     !.calls = Log("sh -c build", err)]
    /\ UNCHANGED <<inst, ds, world, cleanupErrs, home, pc, seen, timers, fleet, backoff, stored, pane, disk>>

NextOutput ==
    \/ DoAppendOutput
    \/ DoRunBuild

SpecOutput == Init /\ [][NextOutput]_vars

-----------------------------------------------------------------------------
(* combineErrors over the lists of errors a cleanup can collect *)

\* The longest list of errors combined.
MaxErrs == 4

\* The errors a step can fail with: plain ones and a wrapped one.
ErrorInputs ==
    {Errorf("e1"), Errorf("e2"), Wrap("failed to close tmux session: ", Errorf("e1"))}

\* errs = append(errs, err) with a non-nil err, as Kill and Pause collect
\* the errors of their steps.
DoAppendError ==
    /\ Len(cleanupErrs) < MaxErrs
    /\ \E e \in ErrorInputs :
         /\ cleanupErrs' = Append(cleanupErrs, e)
         /\ hist' = [hist EXCEPT !.op = "append", !.err = e, !.calls = <<>>]
    /\ UNCHANGED <<inst, ds, world, output, appends, home, pc, seen, timers, fleet, backoff, stored, pane, disk>>

\* i.combineErrors(errs)
DoCombineErrors ==
    /\ hist' = [hist EXCEPT !.op = "combineErrors", !.err = combineErrors(cleanupErrs),
                            !.calls = <<>>]
    /\ UNCHANGED <<inst, ds, world, output, appends, cleanupErrs, home, pc, seen, timers, fleet, backoff, stored, pane, disk>>

NextCombine ==
    \/ DoAppendError
    \/ DoCombineErrors

SpecCombine == Init /\ [][NextCombine]_vars

-----------------------------------------------------------------------------
(* The collection of instances of the application *)

GlobalInstanceLimit == 10

\* m.list.Kill(): the selected instance is killed and leaves the list.
ListKill(h) == [h EXCEPT !.instances = @ - 1]

\* A key was handled: home is as the handler left it, hist holds the error
\* it handed to handleError.
Handled(op, h, err) ==
    /\ home' = h
    /\ hist' = [hist EXCEPT !.op = op, !.err = err, !.calls = <<>>]
    /\ UNCHANGED <<inst, ds, world, output, appends, cleanupErrs, pc, seen, timers, fleet, backoff, stored, pane, disk>>

\* newHome: the instances an earlier run saved are loaded into the list.
newHome ==
    /\ home.state = "unbuilt"
    /\ \E saved \in 0..GlobalInstanceLimit :
         Handled("newHome", [home EXCEPT !.state = "stateDefault",
                                         !.instances = saved], Nil)

\* The commands that create an instance, as they would be without the check
\* of the number of instances.
CreateInstanceUnlimited(h, prompt, newFails) ==
    IF newFails
    THEN [home |-> h, err |-> Errorf("NewInstance failed")]
    ELSE [home |-> [h EXCEPT !.instances = @ + 1, !.state = "stateNew",
                             !.promptAfterName = IF prompt THEN TRUE ELSE @],
          err |-> Nil]

\* handleKeyPress, keys.KeyNew and keys.KeyPrompt.
CreateInstance(h, prompt, newFails) ==
    IF h.instances >= GlobalInstanceLimit
    THEN [home |-> h, err |-> Errorf("you can't create more than 10 instances")]
    ELSE IF newFails
    THEN [home |-> h, err |-> Errorf("NewInstance failed")]
    ELSE [home |-> [h EXCEPT !.instances = @ + 1, !.state = "stateNew",
                             !.promptAfterName = IF prompt THEN TRUE ELSE @],
          err |-> Nil]

KeyNew ==
    /\ home.state = "stateDefault"
    /\ \E newFails \in BOOLEAN :
         LET r == CreateInstance(home, FALSE, newFails)
         IN  Handled("KeyNew", r.home, r.err)

KeyPrompt ==
    /\ home.state = "stateDefault"
    /\ \E newFails \in BOOLEAN :
         LET r == CreateInstance(home, TRUE, newFails)
         IN  Handled("KeyPrompt", r.home, r.err)

\* handleKeyPress in stateNew, ctrl+c or Esc: the instance being created is
\* dropped; only ctrl+c forgets that a prompt was to follow.
CancelNew ==
    /\ home.state = "stateNew"
    /\ \E key \in {"ctrl+c", "esc"} :
         Handled("cancel",
                 [ListKill(home) EXCEPT !.state = "stateDefault",
                                        !.promptAfterName = IF key = "ctrl+c" THEN FALSE
                                                            ELSE @],
                 Nil)

\* handleKeyPress in stateNew, Enter: an empty title is refused; a Start that
\* fails drops the instance; otherwise the instance stays, and the prompt is
\* asked for next when the command was new-with-prompt.
EnterNew ==
    /\ home.state = "stateNew"
    /\ \E outcome \in {"emptyTitle", "startFails", "saveFails", "ok"} :
         CASE outcome = "emptyTitle"
                -> Handled("Enter", home, Errorf("title cannot be empty"))
           [] outcome = "startFails"
                -> Handled("Enter", [ListKill(home) EXCEPT !.state = "stateDefault"],
                           Errorf("start failed"))
           [] outcome = "saveFails"
                -> Handled("Enter", home, Errorf("save failed"))
           [] OTHER
                -> Handled("Enter",
                           [home EXCEPT !.state = IF home.promptAfterName
                                                  THEN "statePrompt"
                                                  ELSE "stateDefault",
                                        !.promptAfterName = FALSE], Nil)

\* handleKeyPress in statePrompt: the overlay closes, submitted or cancelled;
\* a SendPrompt that fails leaves it open.
ClosePrompt ==
    /\ home.state = "statePrompt"
    /\ \E sendFails \in BOOLEAN :
         IF sendFails
         THEN Handled("prompt", home, Errorf("error sending keys to tmux session"))
         ELSE Handled("prompt", [home EXCEPT !.state = "stateDefault"], Nil)

\* keys.KeyKill, confirmed: the selected instance is killed unless its branch
\* is checked out or the storage fails.
KeyKill ==
    /\ home.state = "stateDefault"
    /\ home.instances > 0
    /\ \E refused \in BOOLEAN :
         IF refused
         THEN Handled("KeyKill", home, Errorf("instance is currently checked out"))
         ELSE Handled("KeyKill", ListKill(home), Nil)

NextHome ==
    \/ newHome
    \/ KeyNew
    \/ KeyPrompt
    \/ CancelNew
    \/ EnterNew
    \/ ClosePrompt
    \/ KeyKill

SpecHome == Init /\ [][NextHome]_vars

-----------------------------------------------------------------------------
(* The goroutines of Run: the control loop of the program (p.Run, which     *)
(* calls home.Update for one message at a time) and the goroutine that      *)
(* waits for SIGINT or SIGTERM.  pc.loop is the operation the control loop  *)
(* is executing, pc.signal the position of the signal goroutine, pc.quit    *)
(* whether p.Quit() has been called.                                        *)

\* The operations Update runs on the instance.
LoopOps ==
    {"SetTitle", "Start", "Pause", "Resume", "Kill", "SendPrompt", "Tick",
     "DevServer.Start", "DevServer.Stop", "handleQuit"}

\* The outcomes of a set in which no call fails.
Smooth(outcomes) == {o \in outcomes : \A f \in DOMAIN o : ~o[f]}

\* Update begins an operation the state of the instance lets through; the
\* sweep of the tick begins on an instance that is started and not paused.
CanBegin(op) ==
    CASE op = "SetTitle" -> ~inst.started /\ inst.Title = ""
      [] op = "Start" -> ~inst.started /\ inst.Title # "" /\ hist.kills = "none"
      [] op = "Pause" -> inst.started /\ inst.Status # "Paused"
      [] op = "Resume" -> inst.started /\ inst.Status = "Paused"
      [] op = "Kill" -> inst.started
      [] op = "SendPrompt" -> inst.started /\ inst.Status # "Paused"
      [] op = "Tick" -> inst.started /\ inst.Status # "Paused"
      [] op = "DevServer.Stop" -> inst.DevServer # "nil"
      [] OTHER -> TRUE

LoopBegin ==
    /\ pc.loop = "idle"
    /\ \E op \in LoopOps :
         /\ CanBegin(op)
         /\ pc' = [pc EXCEPT !.loop = op]
    /\ UNCHANGED <<inst, ds, world, hist, output, appends, cleanupErrs, home, seen, timers, fleet, backoff, stored, pane, disk>>

\* The operation the control loop was executing returns.
LoopEnd(op, r) ==
    /\ pc.loop = op
    /\ Effects(op, r)
    /\ pc' = [pc EXCEPT !.loop = "idle"]
    /\ UNCHANGED <<output, appends, cleanupErrs, home, seen, timers, fleet, backoff, stored, pane, disk>>

EndSetTitle == LoopEnd("SetTitle", SetTitle(inst, ds, world, "t1"))

EndStart ==
    \E o \in Smooth(StartOutcomes) :
        LoopEnd("Start", Start(inst, ds, world, TRUE, o, NoFailure))

EndPause == \E o \in Smooth(PauseOutcomes) : LoopEnd("Pause", Pause(inst, ds, world, o))

EndResume ==
    \E o \in Smooth(ResumeOutcomes) : LoopEnd("Resume", Resume(inst, ds, world, o))

EndKill == LoopEnd("Kill", Kill(inst, ds, world, NoFailure))

EndSendPrompt == LoopEnd("SendPrompt", SendPrompt(inst, ds, world, FALSE, FALSE))

EndTick ==
    \E updated \in BOOLEAN :
        LET r == TickUpdateMetadata(inst, ds, world, updated, FALSE, FALSE)
        IN  /\ r.ds.crashCount <= MaxCrashCount
            /\ LoopEnd("Tick", r)

EndDevServerStart ==
    \E settings \in {s \in SettingsInputs : s.kind = "ok"} :
        LoopEnd("DevServer.Start",
                handleDevServerStart(inst, ds, world, settings, "ok"))

EndDevServerStop ==
    LET r == Stop(ds, world, FALSE, FALSE)
    IN  LoopEnd("DevServer.Stop", Res(inst, r.ds, r.world, r.err, r.calls))

\* cleanup, and handleQuit before it: every dev server whose status is
\* Running is stopped.
StopIfRunning(i, d, w) ==
    IF i.DevServer # "nil" /\ d.status = "DevServerRunning"
    THEN LET r == Stop(d, w, FALSE, FALSE)
         IN  Res(i, r.ds, r.world, Nil, Log("DevServer.Stop", r.err) \o r.calls)
    ELSE Res(i, d, w, Nil, <<>>)

\* handleQuit: stop the dev servers, save, and return tea.Quit.
EndHandleQuit ==
    /\ pc.loop = "handleQuit"
    /\ Effects("handleQuit", StopIfRunning(inst, ds, world))
    /\ pc' = [pc EXCEPT !.loop = "exited"]
    /\ UNCHANGED <<output, appends, cleanupErrs, home, seen, timers, fleet, backoff, stored, pane, disk>>

\* A signal arrives: the goroutine started by Run calls cleanup().
SignalReceived ==
    /\ pc.signal = "waiting"
    /\ pc.loop # "exited"
    /\ pc' = [pc EXCEPT !.signal = "cleanup"]
    /\ UNCHANGED <<inst, ds, world, hist, output, appends, cleanupErrs, home, seen, timers, fleet, backoff, stored, pane, disk>>

\* cleanup() on the signal goroutine returns, and p.Quit() is called.
SignalCleanupDone ==
    /\ pc.signal = "cleanup"
    /\ Effects("cleanup", StopIfRunning(inst, ds, world))
    /\ pc' = [pc EXCEPT !.signal = "done", !.quit = TRUE]
    /\ UNCHANGED <<output, appends, cleanupErrs, home, seen, timers, fleet, backoff, stored, pane, disk>>

\* The control loop handles the quit message between two operations; Run
\* then calls cleanup() once more.
LoopQuit ==
    /\ pc.loop = "idle"
    /\ pc.quit
    /\ Effects("cleanup", StopIfRunning(inst, ds, world))
    /\ pc' = [pc EXCEPT !.loop = "exited"]
    /\ UNCHANGED <<output, appends, cleanupErrs, home, seen, timers, fleet, backoff, stored, pane, disk>>

NextLoop ==
    \/ LoopBegin
    \/ EndSetTitle
    \/ EndStart
    \/ EndPause
    \/ EndResume
    \/ EndKill
    \/ EndSendPrompt
    \/ EndTick
    \/ EndDevServerStart
    \/ EndDevServerStop
    \/ EndHandleQuit
    \/ SignalReceived
    \/ SignalCleanupDone
    \/ LoopQuit
    \/ DevSessionExits

SpecLoop == Init /\ [][NextLoop]_vars

-----------------------------------------------------------------------------
(* The output buffer under concurrent use: one goroutine appends, another   *)
(* reads.  pc.writer is the position of the appender inside appendOutput,   *)
(* pc.reader that of the reader; outputMu is held for writing while the     *)
(* appender is between Lock and Unlock, for reading while the reader is     *)
(* between RLock and RUnlock.  seen is what the reader saw last.            *)

\* appendOutput: d.outputMu.Lock()
AppendLock ==
    /\ pc.writer = "idle"
    /\ pc.reader = "idle"
    /\ appends.lines < MaxAppends
    /\ pc' = [pc EXCEPT !.writer = "locked"]
    /\ UNCHANGED <<inst, ds, world, hist, output, appends, cleanupErrs, home, seen, timers, fleet, backoff, stored, pane, disk>>

\* appendOutput: d.output = append(d.output, line)
AppendLine ==
    /\ pc.writer = "locked"
    /\ output' = Append(output, Arriving(appends.lines, 1))
    /\ appends' = [appends EXCEPT !.lines = @ + 1]
    /\ pc' = [pc EXCEPT !.writer = "appended"]
    /\ UNCHANGED <<inst, ds, world, hist, cleanupErrs, home, seen, timers, fleet, backoff, stored, pane, disk>>

\* appendOutput: the trim, and the deferred Unlock.
AppendTrimUnlock ==
    /\ pc.writer = "appended"
    /\ output' = Trim(output)
    /\ pc' = [pc EXCEPT !.writer = "idle"]
    /\ UNCHANGED <<inst, ds, world, hist, appends, cleanupErrs, home, seen, timers, fleet, backoff, stored, pane, disk>>

\* Output() and GetOutput(): d.outputMu.RLock()
OutputRLock ==
    /\ pc.reader = "idle"
    /\ pc.writer = "idle"
    /\ pc' = [pc EXCEPT !.reader = "rlocked"]
    /\ UNCHANGED <<inst, ds, world, hist, output, appends, cleanupErrs, home, seen, timers, fleet, backoff, stored, pane, disk>>

\* Output() and GetOutput(): the buffer is read and the lock released.
OutputRead ==
    /\ pc.reader = "rlocked"
    /\ seen' = [by |-> "Output", len |-> Len(output), locked |-> TRUE]
    /\ pc' = [pc EXCEPT !.reader = "idle"]
    /\ UNCHANGED <<inst, ds, world, hist, output, appends, cleanupErrs, home, timers, fleet, backoff, stored, pane, disk>>

\* HasUpdated: len(d.output) is read, before and after the update, with no
\* lock taken.
HasUpdatedReadsLen ==
    /\ pc.reader = "idle"
    /\ seen' = [by |-> "HasUpdated", len |-> Len(output), locked |-> FALSE]
    /\ UNCHANGED <<inst, ds, world, hist, output, appends, cleanupErrs, home, pc, timers, fleet, backoff, stored, pane, disk>>

NextBuffer ==
    \/ AppendLock
    \/ AppendLine
    \/ AppendTrimUnlock
    \/ OutputRLock
    \/ OutputRead
    \/ HasUpdatedReadsLen

SpecBuffer == Init /\ [][NextBuffer]_vars

-----------------------------------------------------------------------------
(* The timed commands of the application.  A command sleeps on a goroutine  *)
(* of its own and then hands its message to Update.  timers holds, for      *)
(* each command, the milliseconds its sleep has left (NotPending when the   *)
(* command is not running), and whether the root context was cancelled.     *)
(* Time passes in steps of TimeStepMs, the shortest of the sleeps.           *)

MetadataTickMs == 500
PreviewTickMs == 100
KeydownMs == 500
HideErrMs == 3000
TimeStepMs == PreviewTickMs

\* time.Sleep(d): the command returns when d has passed, whatever happens to
\* the context.
SleepDone(left, ctx) == left = 0

\* select { case <-m.ctx.Done(): case <-time.After(d): }
\* The command returns when d has passed or the context is cancelled.
SelectDone(left, ctx) == left = 0 \/ (left > 0 /\ ctx = "cancelled")

Timed(t) ==
    /\ timers' = t
    /\ UNCHANGED <<inst, ds, world, hist, output, appends, cleanupErrs, home, pc, seen, fleet, backoff, stored, pane, disk>>

\* home.Init: the preview tick and the metadata tick are started.
ProgramInit ==
    /\ timers.metadata = NotPending
    /\ timers.preview = NotPending
    /\ Timed([timers EXCEPT !.metadata = MetadataTickMs, !.preview = PreviewTickMs])

\* tickUpdateMetadataCmd returns; Update handles tickUpdateMetadataMessage
\* and returns the command again.
MetadataTickReturns ==
    /\ timers.metadata # NotPending
    /\ SleepDone(timers.metadata, timers.ctx)
    /\ Timed([timers EXCEPT !.metadata = MetadataTickMs])

\* The preview tick returns; Update handles previewTickMsg and starts the
\* next one.
PreviewTickReturns ==
    /\ timers.preview # NotPending
    /\ SleepDone(timers.preview, timers.ctx)
    /\ Timed([timers EXCEPT !.preview = PreviewTickMs])

\* keydownCallback: a key of the menu was pressed.
Keydown ==
    /\ timers.preview # NotPending
    /\ timers.keyup = NotPending
    /\ Timed([timers EXCEPT !.keyup = KeydownMs])

\* The command of keydownCallback returns keyupMsg.
KeyupReturns ==
    /\ timers.keyup # NotPending
    /\ SelectDone(timers.keyup, timers.ctx)
    /\ Timed([timers EXCEPT !.keyup = NotPending])

\* handleError: an error is shown.
ErrorShown ==
    /\ timers.preview # NotPending
    /\ timers.hideErr = NotPending
    /\ Timed([timers EXCEPT !.hideErr = HideErrMs])

\* The command of handleError returns hideErrMsg.
HideErrReturns ==
    /\ timers.hideErr # NotPending
    /\ SelectDone(timers.hideErr, timers.ctx)
    /\ Timed([timers EXCEPT !.hideErr = NotPending])

\* The caller of Run cancels the context.
CtxCancelled ==
    /\ timers.ctx = "live"
    /\ Timed([timers EXCEPT !.ctx = "cancelled"])

\* What is left of a sleep after one more step of time.
Later(left) == IF left > 0 THEN left - TimeStepMs ELSE left

\* Time passes, unless a command is due to return.
TimePasses ==
    /\ timers.metadata # NotPending
    /\ ~SleepDone(timers.metadata, timers.ctx)
    /\ ~SleepDone(timers.preview, timers.ctx)
    /\ timers.keyup # NotPending => ~SelectDone(timers.keyup, timers.ctx)
    /\ timers.hideErr # NotPending => ~SelectDone(timers.hideErr, timers.ctx)
    /\ Timed([timers EXCEPT !.metadata = Later(@), !.preview = Later(@),
                            !.keyup = Later(@), !.hideErr = Later(@)])

NextTicks ==
    \/ ProgramInit
    \/ MetadataTickReturns
    \/ PreviewTickReturns
    \/ Keydown
    \/ KeyupReturns
    \/ ErrorShown
    \/ HideErrReturns
    \/ CtxCancelled
    \/ TimePasses

SpecTicks == Init /\ [][NextTicks]_vars

-----------------------------------------------------------------------------
(* The poller and the dev server of an instance of the list.  Update        *)
(* returns tickUpdateMetadataCmd every time it has handled the tick, so     *)
(* the tick keeps coming.                                                   *)

\* keys.KeyDevServerStart on the selected instance.  Instances of the list
\* are started; restarts are counted up to the bound on crashes.
PollDevServerStart ==
    /\ inst.started
    /\ ds.crashCount < MaxCrashCount
    /\ DoHandleDevServerStart

NextPoll ==
    \/ DoSetTitle
    \/ DoStart
    \/ DoPause
    \/ DoResume
    \/ Tick
    \/ PollDevServerStart
    \/ DevSessionExits

SpecPoll == Init /\ [][NextPoll]_vars /\ WF_vars(Tick)

-----------------------------------------------------------------------------
(* DevServer.Start statement by statement: the status it assigns on the     *)
(* way is a status of the DevServer like any other.  pc.loop is "idle"      *)
(* outside Start, "Start.build" when Start has set Building, and            *)
(* "Start.launch" when it has set Starting.                                 *)

\* The guards of Start as they would be without the IsRunning check.
StartEnterUnguarded(d) ==
    IF d.config.DevCommand = ""
    THEN [ds |-> d, err |-> Errorf("dev command not configured"), next |-> "idle"]
    ELSE [ds |-> [d EXCEPT !.status = "DevServerBuilding"], err |-> Nil,
          next |-> "Start.build"]

\* Start, up to d.status = DevServerBuilding.
StartEnter(d) ==
    IF IsRunning(d)
    THEN [ds |-> d, err |-> Errorf("dev server is already running"), next |-> "idle"]
    ELSE IF d.config.DevCommand = ""
    THEN [ds |-> d, err |-> Errorf("dev command not configured"), next |-> "idle"]
    ELSE [ds |-> [d EXCEPT !.status = "DevServerBuilding"], err |-> Nil,
          next |-> "Start.build"]

\* Start, from the build to d.status = DevServerStarting.
StartBuild(d, buildFails) ==
    IF d.config.BuildCommand # "" /\ buildFails
    THEN [ds |-> [d EXCEPT !.status = "DevServerStopped"],
          err |-> Wrap("build failed: ", Errorf("build command failed")),
          next |-> "idle"]
    ELSE [ds |-> [d EXCEPT !.status = "DevServerStarting"], err |-> Nil,
          next |-> "Start.launch"]

\* Start, from startDevServer to the return.
StartLaunch(d, w, outcome) ==
    LET r == startDevServer(d, w, outcome)
    IN  IF r.err.isErr
        THEN [ds |-> [r.ds EXCEPT !.status = "DevServerStopped"], world |-> r.world,
              err |-> Wrap("failed to start dev server: ", r.err), calls |-> r.calls]
        ELSE [ds |-> [r.ds EXCEPT !.status = "DevServerRunning"], world |-> r.world,
              err |-> Nil, calls |-> r.calls]

\* A statement of a method of the DevServer was executed.
Stepped(op, d, w, err, calls, next) ==
    /\ ds' = d
    /\ world' = w
    /\ hist' = [hist EXCEPT !.op = op, !.err = err, !.calls = calls]
    /\ pc' = [pc EXCEPT !.loop = next]
    /\ UNCHANGED <<inst, output, appends, cleanupErrs, home, seen, timers, fleet, backoff, stored, pane, disk>>

\* NewDevServer from the settings, or FromInstanceData: the DevServer comes
\* back with the status and the crash count that were saved, and no session.
StepNewDevServer ==
    /\ inst.DevServer = "nil"
    /\ \E config \in Configs, status \in DevServerStatuses, crashes \in 0..MaxCrashCount :
         /\ inst' = [inst EXCEPT !.DevServer = "obj"]
         /\ ds' = [NewDevServer(config) EXCEPT !.status = status, !.crashCount = crashes]
         /\ hist' = [hist EXCEPT !.op = "FromInstanceData", !.err = Nil, !.calls = <<>>]
    /\ UNCHANGED <<world, output, appends, cleanupErrs, home, pc, seen, timers, fleet, backoff, stored, pane, disk>>

StepStartEnter ==
    /\ inst.DevServer # "nil"
    /\ pc.loop = "idle"
    /\ LET r == StartEnter(ds)
       IN  Stepped("DevServer.Start", r.ds, world, r.err, <<>>, r.next)

StepStartBuild ==
    /\ pc.loop = "Start.build"
    /\ \E buildFails \in BOOLEAN :
         LET r == StartBuild(ds, buildFails)
         IN  Stepped("DevServer.Start", r.ds, world, r.err,
                     IF ds.config.BuildCommand # "" THEN Log("sh -c build", r.err)
                     ELSE <<>>,
                     r.next)

StepStartLaunch ==
    /\ pc.loop = "Start.launch"
    /\ \E outcome \in {"ok", "ptyFails", "timeout"} :
         LET r == StartLaunch(ds, world, outcome)
         IN  Stepped("DevServer.Start", r.ds, r.world, r.err, r.calls, "idle")

StepStop ==
    /\ inst.DevServer # "nil"
    /\ pc.loop = "idle"
    /\ \E closeFails \in BOOLEAN :
         LET r == DevServerStop(ds, world, closeFails)
         IN  Stepped("DevServer.Stop", r.ds, r.world, r.err, r.calls, "idle")

StepCheckHealth ==
    /\ inst.DevServer # "nil"
    /\ pc.loop = "idle"
    /\ CheckHealth(ds, world).crashCount <= MaxCrashCount
    /\ Stepped("DevServer.CheckHealth", CheckHealth(ds, world), world, Nil, <<>>, "idle")

\* The session of the dev server ends, at any time.
StepSessionExits ==
    /\ world.dsSession
    /\ Stepped("external", ds, [world EXCEPT !.dsSession = FALSE], Nil, <<>>, pc.loop)

NextSteps ==
    \/ StepNewDevServer
    \/ StepStartEnter
    \/ StepStartBuild
    \/ StepStartLaunch
    \/ StepStop
    \/ StepCheckHealth
    \/ StepSessionExits

SpecSteps == Init /\ [][NextSteps]_vars

-----------------------------------------------------------------------------
(* The names of the dev-server sessions.  A title is the sequence of its   *)
(* characters.  fleet holds two instances of the list: the title each was  *)
(* given, whether it was started, the tmux session its DevServer refers    *)
(* to, and the instance whose dev-server session was killed by the start   *)
(* of another (0 when none was).                                           *)

MaxTitleLen == 2

Runes == {"a", " ", ".", "_"}

Fleet == {1, 2}

NoSession == <<>>

RECURSIVE StripWhitespace(_)
StripWhitespace(name) ==
    IF name = <<>> THEN <<>>
    ELSE IF Head(name) = " " THEN StripWhitespace(Tail(name))
    ELSE <<Head(name)>> \o StripWhitespace(Tail(name))

ReplaceAll(name, old, new) ==
    [k \in 1..Len(name) |-> IF name[k] = old THEN new ELSE name[k]]

devServerSessionName(instanceName) ==
    ReplaceAll(StripWhitespace(instanceName), ".", "_") \o <<"_", "d", "e", "v">>

fullSessionName(instanceName) ==
    <<"TmuxPrefix">> \o devServerSessionName(instanceName)

\* stateNew: a key appends a character to the title of the new instance
TypeRune ==
    \E k \in Fleet, r \in Runes :
        /\ ~fleet.started[k]
        /\ Len(fleet.title[k]) < MaxTitleLen
        /\ fleet' = [fleet EXCEPT !.title[k] = Append(@, r)]
        /\ UNCHANGED <<inst, ds, world, hist, output, appends, cleanupErrs, home, pc, seen, timers, backoff, stored, pane, disk>>

\* stateNew: Enter starts the instance, its title is fixed from now on
FleetStart ==
    \E k \in Fleet :
        /\ ~fleet.started[k]
        /\ fleet.title[k] # <<>>
        /\ fleet' = [fleet EXCEPT !.started[k] = TRUE]
        /\ UNCHANGED <<inst, ds, world, hist, output, appends, cleanupErrs, home, pc, seen, timers, backoff, stored, pane, disk>>

\* startDevServer: kills the session of that name if there is one, then
\* creates it and keeps a reference to it
FleetDevServerStart ==
    \E k \in Fleet :
        LET name == fullSessionName(fleet.title[k])
            holders == {j \in Fleet \ {k} : fleet.session[j] = name}
        IN  /\ fleet.started[k]
            /\ fleet.session[k] = NoSession
            /\ fleet' = [fleet EXCEPT !.session[k] = name,
                                      !.killed = IF holders = {} THEN @
                                                 ELSE CHOOSE j \in holders : TRUE]
            /\ UNCHANGED <<inst, ds, world, hist, output, appends, cleanupErrs, home, pc, seen, timers, backoff, stored, pane, disk>>

\* DevServer.Stop: closes the session it refers to
FleetDevServerStop ==
    \E k \in Fleet :
        /\ fleet.session[k] # NoSession
        /\ fleet' = [fleet EXCEPT !.session[k] = NoSession]
        /\ UNCHANGED <<inst, ds, world, hist, output, appends, cleanupErrs, home, pc, seen, timers, backoff, stored, pane, disk>>

NextFleet ==
    \/ TypeRune
    \/ FleetStart
    \/ FleetDevServerStart
    \/ FleetDevServerStop

SpecFleet == Init /\ [][NextFleet]_vars

-----------------------------------------------------------------------------
(* startDevServer waiting for its session.  backoff holds the position of  *)
(* the loop, the sleepDuration of the next sleep, the milliseconds since   *)
(* the timeout was armed, the time at which the last sleep began and       *)
(* whether tmux has created the session.  A sleep lasts its duration or    *)
(* up to MaxJitterMs longer.                                               *)

BackoffTimeoutMs == 2000
BackoffInitialMs == 5
BackoffCeilingMs == 50
MaxJitterMs == 5

NextSleepDuration(sleepDuration) ==
    IF sleepDuration < BackoffCeilingMs THEN sleepDuration * 2 ELSE sleepDuration

\* timeout := time.After(2 * time.Second); sleepDuration := 5 * time.Millisecond
BackoffBegin ==
    /\ backoff.state = "idle"
    /\ backoff' = [state |-> "polling", sleepDuration |-> BackoffInitialMs,
                   elapsed |-> 0, sleptAt |-> 0, exists |-> FALSE]
    /\ UNCHANGED <<inst, ds, world, hist, output, appends, cleanupErrs, home, pc, seen, timers, fleet, stored, pane, disk>>

\* tmux creates the session some time after new-session was launched
SessionAppears ==
    /\ backoff.state = "polling"
    /\ ~backoff.exists
    /\ backoff' = [backoff EXCEPT !.exists = TRUE]
    /\ UNCHANGED <<inst, ds, world, hist, output, appends, cleanupErrs, home, pc, seen, timers, fleet, stored, pane, disk>>

\* default: time.Sleep(sleepDuration), then the doubling
BackoffSleep ==
    \E jitter \in {0, MaxJitterMs} :
        /\ backoff.state = "polling"
        /\ ~backoff.exists
        /\ backoff.elapsed < BackoffTimeoutMs
        /\ backoff' = [backoff EXCEPT
                          !.sleptAt = backoff.elapsed,
                          !.elapsed = @ + backoff.sleepDuration + jitter,
                          !.sleepDuration = NextSleepDuration(@)]
        /\ UNCHANGED <<inst, ds, world, hist, output, appends, cleanupErrs, home, pc, seen, timers, fleet, stored, pane, disk>>

\* case <-timeout: the start fails
BackoffTimedOut ==
    /\ backoff.state = "polling"
    /\ ~backoff.exists
    /\ backoff.elapsed >= BackoffTimeoutMs
    /\ backoff' = [backoff EXCEPT !.state = "timedOut"]
    /\ UNCHANGED <<inst, ds, world, hist, output, appends, cleanupErrs, home, pc, seen, timers, fleet, stored, pane, disk>>

\* DoesSessionExist() is true: the loop ends
BackoffSessionSeen ==
    /\ backoff.state = "polling"
    /\ backoff.exists
    /\ backoff' = [backoff EXCEPT !.state = "seen"]
    /\ UNCHANGED <<inst, ds, world, hist, output, appends, cleanupErrs, home, pc, seen, timers, fleet, stored, pane, disk>>

\* startDevServer returns
BackoffReturns ==
    /\ backoff.state \in {"timedOut", "seen"}
    /\ backoff' = [backoff EXCEPT !.state = "idle"]
    /\ UNCHANGED <<inst, ds, world, hist, output, appends, cleanupErrs, home, pc, seen, timers, fleet, stored, pane, disk>>

NextBackoff ==
    \/ BackoffBegin
    \/ SessionAppears
    \/ BackoffSleep
    \/ BackoffTimedOut
    \/ BackoffSessionSeen
    \/ BackoffReturns

SpecBackoff == Init /\ [][NextBackoff]_vars

-----------------------------------------------------------------------------
(* Persistence of the instance.  stored is the record of the instance in    *)
(* the stored list (present: whether the list holds one).  The list is     *)
(* written while the program runs; the process can end without its         *)
(* cleanup (SIGKILL, SIGHUP, a panic), and the next process builds its     *)
(* instances from the stored list.  The tmux sessions outlive the process. *)

ToInstanceData(i, d) ==
    [Title |-> i.Title, Branch |-> i.Branch, Status |-> i.Status,
     AutoYes |-> i.AutoYes,
     hasWorktree |-> i.gitWorktree # "nil",
     hasDevServer |-> i.DevServer # "nil",
     DevServer |-> IF i.DevServer # "nil"
                   THEN [Config |-> d.config, Status |-> d.status,
                         CrashCount |-> d.crashCount]
                   ELSE [Config |-> NoDevServer.config, Status |-> "DevServerStopped",
                         CrashCount |-> 0]]

\* FromInstanceData(data)
FromInstanceData(data, w, o, k) ==
    LET i == [Title |-> data.Title, Branch |-> data.Branch, Status |-> data.Status,
              AutoYes |-> FALSE, started |-> FALSE, tmuxSession |-> "nil",
              gitWorktree |-> "obj",
              DevServer |-> IF data.hasDevServer THEN "obj" ELSE "nil"]
        d == IF data.hasDevServer
             THEN [config |-> data.DevServer.Config,
                   status |-> data.DevServer.Status,
                   session |-> "nil",
                   crashCount |-> data.DevServer.CrashCount,
                   stopFails |-> FALSE]
             ELSE NoDevServer
    IN  IF i.Status = "Paused"
        THEN Res([i EXCEPT !.started = TRUE, !.tmuxSession = "obj"], d, w, Nil, <<>>)
        ELSE Start(i, d, w, FALSE, o, k)

\* The list is saved while the program runs: Enter in stateNew saves every
\* instance of the list once the new one has started.
SaveInstances ==
    /\ inst.started
    /\ stored' = [present |-> TRUE, data |-> ToInstanceData(inst, ds)]
    /\ hist' = [hist EXCEPT !.op = "SaveInstances", !.err = Nil, !.calls = <<>>]
    /\ UNCHANGED <<inst, ds, world, output, appends, cleanupErrs, home, pc, seen, timers, fleet, backoff, pane, disk>>

\* The process has ended without its cleanup and the program is run again:
\* newHome loads the stored list.  A record that cannot be restored ends
\* the program (os.Exit), so a process is running only once one could be.
Restart ==
    /\ stored.present
    /\ \E o \in {x \in StartOutcomes : ~x.create /\ ~x.setup /\ ~x.start /\ ~x.cleanup},
          autoYes \in BOOLEAN :
           LET r == FromInstanceData(stored.data, world, o, NoFailure)
           IN  /\ ~r.err.isErr
               /\ Effects("FromInstanceData",
                          [r EXCEPT !.inst.AutoYes = autoYes])
               /\ UNCHANGED <<stored, output, appends, cleanupErrs, home, pc, seen, timers, fleet, backoff, pane, disk>>

NextRestore ==
    \/ DoSetTitle
    \/ DoStart
    \/ DoPause
    \/ DoHandleDevServerStart
    \/ Tick
    \/ DevSessionExits
    \/ SaveInstances
    \/ Restart

SpecRestore == Init /\ [][NextRestore]_vars

-----------------------------------------------------------------------------
(* Capturing the pane of the dev-server session into the output buffer.    *)
(* pane holds the lines the pane shows (content), what the last two        *)
(* captures saw (last, prev), the buffer before the last capture (before), *)
(* the number of captures and the last step.                               *)

MaxPaneLines == 2
MaxUpdates == 3

PaneLines == {"ready", "GET /", " "}

\* strings.TrimSpace(line) != ""
NonBlank(line) == line \notin {"", " "}

\* the loop of UpdateOutputFromSession over the lines of the capture
RECURSIVE AppendLines(_, _)
AppendLines(out, lines) ==
    IF lines = <<>> THEN out
    ELSE AppendLines(IF NonBlank(Head(lines)) THEN appendOutput(out, Head(lines))
                     ELSE out,
                     Tail(lines))

\* DevServer.UpdateOutputFromSession
UpdateOutputFromSession(out, session, content, captureFails) ==
    IF session = "nil" \/ captureFails THEN out
    ELSE AppendLines(out, content)

\* The dev server prints a line.
PaneWrites ==
    \E line \in PaneLines :
        /\ Len(pane.content) < MaxPaneLines
        /\ pane' = [pane EXCEPT !.content = Append(@, line), !.op = "write"]
        /\ UNCHANGED <<inst, ds, world, hist, output, appends, cleanupErrs, home, pc, seen, timers, fleet, backoff, stored, disk>>

\* DevServer.UpdateOutput, called by ServerPane.UpdateContent on every
\* refresh of a Running dev server
DoUpdateOutput ==
    \E captureFails \in BOOLEAN :
        /\ pane.updates < MaxUpdates
        /\ output' = UpdateOutputFromSession(output, "obj", pane.content, captureFails)
        /\ pane' = IF captureFails THEN [pane EXCEPT !.op = "captureFailed"]
                   ELSE [pane EXCEPT !.prev = pane.last, !.last = pane.content,
                                     !.before = output, !.updates = @ + 1,
                                     !.op = "UpdateOutput"]
        /\ UNCHANGED <<inst, ds, world, hist, appends, cleanupErrs, home, pc, seen, timers, fleet, backoff, stored, disk>>

NextCapture ==
    \/ PaneWrites
    \/ DoUpdateOutput

SpecCapture == Init /\ [][NextCapture]_vars

-----------------------------------------------------------------------------
(* The stored state of the application (package config).  disk holds the   *)
(* state file of the configuration directory (legacy), the state file of   *)
(* the repository's own directory (repoFile), the instances of the State   *)
(* the running program holds (loaded), the list of the last SaveInstances  *)
(* or DeleteAllInstances (saved), whether the program runs and the last    *)
(* step.  A stored instance is its title and the repo_path of its          *)
(* worktree.                                                               *)

MaxInstances == 2

CurrentRepo == "repo"

NoFile == [exists |-> FALSE, instances |-> <<>>]

File(instances) == [exists |-> TRUE, instances |-> instances]

StoredInstance(title) == [title |-> title, repo_path |-> CurrentRepo]

StoredTitles == {"a", "b", "c"}

\* the lists SaveInstances is given: instances of distinct titles
InstanceLists ==
    {l \in UNION {[1..n -> {StoredInstance(x) : x \in StoredTitles}] : n \in 0..MaxInstances} :
        \A j, k \in 1..Len(l) : j # k => l[j] # l[k]}

\* SaveState(state): the state goes to the file of the configuration
\* directory
SaveState(d, instances) ==
    [d EXCEPT !.loaded = instances, !.legacy = File(instances)]

\* SaveStateForRepo(state, repoPath): the state goes to the file of the
\* repository's directory
SaveStateForRepo(d, instances) ==
    [d EXCEPT !.repoFile = File(instances)]

\* the instances of the list whose worktree is of the repository
RECURSIVE RepoGroup(_, _)
RepoGroup(instances, repoPath) ==
    IF instances = <<>> THEN <<>>
    ELSE IF Head(instances).repo_path = repoPath
    THEN <<Head(instances)>> \o RepoGroup(Tail(instances), repoPath)
    ELSE RepoGroup(Tail(instances), repoPath)

\* MigrateLegacyState: every repository that has instances in the legacy
\* file gets them written to its own file, then the legacy file is renamed
MigrateLegacyState(d) ==
    IF ~d.legacy.exists THEN d
    ELSE LET group == RepoGroup(d.legacy.instances, CurrentRepo)
             d1 == IF group # <<>> THEN SaveStateForRepo(d, group) ELSE d
         IN  [d1 EXCEPT !.legacy = NoFile]

\* LoadStateForRepo(repoPath): the repository's file, or the default state,
\* which is saved when there is no file
LoadStateForRepo(d) ==
    IF d.repoFile.exists
    THEN [d EXCEPT !.loaded = d.repoFile.instances]
    ELSE [SaveStateForRepo(d, <<>>) EXCEPT !.loaded = <<>>]

\* newHome: MigrateLegacyState, then LoadStateForRepo(currentDir)
Startup ==
    /\ ~disk.running
    /\ disk' = [LoadStateForRepo(MigrateLegacyState(disk))
                  EXCEPT !.running = TRUE, !.op = "startup"]
    /\ UNCHANGED <<inst, ds, world, hist, output, appends, cleanupErrs, home, pc, seen, timers, fleet, backoff, stored, pane>>

\* State.SaveInstances(instancesJSON)
StateSaveInstances ==
    \E instances \in InstanceLists :
        /\ disk.running
        /\ disk' = [SaveState(disk, instances)
                      EXCEPT !.saved = File(instances), !.op = "SaveInstances"]
        /\ UNCHANGED <<inst, ds, world, hist, output, appends, cleanupErrs, home, pc, seen, timers, fleet, backoff, stored, pane>>

\* State.DeleteAllInstances()
StateDeleteAllInstances ==
    /\ disk.running
    /\ disk' = [SaveState(disk, <<>>)
                  EXCEPT !.saved = File(<<>>), !.op = "DeleteAllInstances"]
    /\ UNCHANGED <<inst, ds, world, hist, output, appends, cleanupErrs, home, pc, seen, timers, fleet, backoff, stored, pane>>

\* the program ends
Shutdown ==
    /\ disk.running
    /\ disk' = [disk EXCEPT !.running = FALSE, !.op = "shutdown"]
    /\ UNCHANGED <<inst, ds, world, hist, output, appends, cleanupErrs, home, pc, seen, timers, fleet, backoff, stored, pane>>

NextState ==
    \/ Startup
    \/ StateSaveInstances
    \/ StateDeleteAllInstances
    \/ Shutdown

SpecState == Init /\ [][NextState]_vars

-----------------------------------------------------------------------------
(* Properties *)

\* The names of the calls of a log, in order.
Names(calls) == [n \in 1..Len(calls) |-> calls[n].fn]

\* The last operation made the call; the call failed.
Attempted(fn) == \E n \in 1..Len(hist.calls) : hist.calls[n].fn = fn

Failed(fn) == \E n \in 1..Len(hist.calls) : hist.calls[n].fn = fn /\ hist.calls[n].failed

IsKillStep(c) == c.fn \in {"DevServer.Stop", "tmux.Close", "git.Cleanup"}

\* C1: Kill on a started instance attempts, in this order, the stop of the
\* dev server (if there is one), the close of the session and the cleanup of
\* the worktree, whichever of them fail, and the error it returns mentions
\* every step that failed (none failed exactly when it returns no error).
C1_KillAttemptsEveryStep ==
    (hist.op = "Kill" /\ inst.started) =>
        /\ Names(SelectSeq(hist.calls, IsKillStep))
               = (IF inst.DevServer # "nil" THEN <<"DevServer.Stop">> ELSE <<>>)
                     \o <<"tmux.Close", "git.Cleanup">>
        /\ Failed("DevServer.Stop") => Mentions(hist.err, "dev server stop error")
        /\ Failed("tmux.Close") => Mentions(hist.err, "tmux close error")
        /\ Failed("git.Cleanup") => Mentions(hist.err, "git cleanup error")
        /\ hist.err.isErr
               <=> (Failed("DevServer.Stop") \/ Failed("tmux.Close")
                        \/ Failed("git.Cleanup"))

\* A Kill whose dev-server stop and session close both failed: the cleanup
\* of the worktree was attempted and the error names both failures.
C1_Witness ==
    /\ hist.op = "Kill"
    /\ inst.started
    /\ Failed("DevServer.Stop")
    /\ Failed("tmux.Close")
    /\ Attempted("git.Cleanup")
    /\ Mentions(hist.err, "dev server stop error")
    /\ Mentions(hist.err, "tmux close error")
    /\ Mentions(hist.err, "multiple cleanup errors occurred:")

\* C2: an instance that is not started holds no worktree on disk and no
\* live session, also after a Start that returned an error.
C2_NotStartedHoldsNothing ==
    ~inst.started => (~world.wtDir /\ ~DoesSessionExist(world))

\* C3: as long as no Kill has run, a Paused instance has its worktree
\* directory on disk and its session detached and not closed, also after a
\* Resume that returned an error.
C3_PausedKeepsWorktreeAndSession ==
    (inst.Status = "Paused" /\ hist.kills = "none") =>
        (world.wtDir /\ world.tmux = "detached")

\* C4: once a Kill of the started instance has completed without error,
\* every Kill returns no error.
C4_KillIdempotent ==
    (hist.op = "Kill" /\ hist.kills = "clean") => ~hist.err.isErr

C6_KillIsTerminal ==
    [][(/\ hist.kills # "none"
        /\ hist'.op \in {"Pause", "Resume", "SendPrompt", "SendKeys", "Attach", "Tick"})
           => (/\ hist'.op # "Tick" => hist'.err.isErr
               /\ inst'.Status = inst.Status
               /\ hist'.calls = <<>>)]_vars

\* C7: a Pause of a started, not paused instance whose dirty check and
\* commit succeeded and whose detach failed leaves Status Paused.
C7_PauseLenientOnDetach ==
    (/\ hist.op = "Pause"
     /\ Failed("tmux.DetachSafely")
     /\ ~Failed("git.IsDirty")
     /\ ~Failed("git.CommitChanges"))
        => inst.Status = "Paused"

\* C8: DevServer.Start on a dev server that is Running, Starting or
\* Building returns the "already running" error, leaves the status as it
\* was and runs no build and launches no session.
C8_StartRejectedWhileActive ==
    [][(/\ hist'.op = "DevServer.Start"
        /\ ds.status \in {"DevServerRunning", "DevServerStarting", "DevServerBuilding"})
           => (/\ Mentions(hist'.err, "dev server is already running")
               /\ ds' = ds
               /\ world' = world
               /\ hist'.calls = <<>>)]_vars

\* C9: a Start that returns no error leaves started TRUE and Status
\* Running; a Start that returns an error leaves started as it was.
C9_StartSetsStartedOnlyOnSuccess ==
    [][hist'.op = "Start" =>
           (/\ ~hist'.err.isErr => (inst'.started /\ inst'.Status = "Running")
            /\ hist'.err.isErr => inst'.started = inst.started)]_vars

\* A Start failed after it had set up the worktree: started is still FALSE.
C9_Witness ==
    /\ hist.op = "Start"
    /\ hist.err.isErr
    /\ Failed("tmux.Start")
    /\ ~inst.started

\* C10: Start on an instance whose Title is empty returns the validation
\* error, makes no call and changes nothing: no session object, no worktree,
\* started, Status and Branch as they were.
C10_EmptyTitleRejected ==
    [][(hist'.op = "Start" /\ inst.Title = "") =>
           (/\ Mentions(hist'.err, "instance title cannot be empty")
            /\ hist'.calls = <<>>
            /\ inst' = inst
            /\ ds' = ds
            /\ world' = world)]_vars

\* A Start was rejected for its empty title.
C10_Witness ==
    /\ hist.op = "Start"
    /\ inst.Title = ""
    /\ hist.err.isErr
    /\ inst.tmuxSession = "nil"

\* C11: Pause on an instance that is not started or is already Paused
\* returns an error, makes no call (no dirty check, no commit, no detach)
\* and leaves the instance, its Status and its resources as they were.
C11_PauseRejected ==
    [][(hist'.op = "Pause" /\ (~inst.started \/ inst.Status = "Paused")) =>
           (/\ hist'.err.isErr
            /\ hist'.calls = <<>>
            /\ inst' = inst
            /\ ds' = ds
            /\ world' = world)]_vars

\* A Pause was rejected on a Paused instance whose worktree is dirty.
C11_Witness ==
    /\ hist.op = "Pause"
    /\ inst.started
    /\ inst.Status = "Paused"
    /\ world.dirty
    /\ Mentions(hist.err, "instance is already paused")

IsCommitAttempt(c) == c.fn = "git.CommitChanges"

IsCommit(c) == c.fn = "git.CommitChanges" /\ ~c.failed

\* The calls Pause makes on the worktree, the session and the clipboard.
PauseCalls == {"git.IsDirty", "git.CommitChanges", "tmux.DetachSafely", "clipboard.WriteAll"}

\* C12: a Pause calls CommitChanges at most once and only on a dirty
\* worktree; a Pause that returns no error has made exactly one commit if
\* the worktree was dirty and none if it was clean; no Pause pushes.
C12_PauseCommitsOnceIfDirty ==
    [][hist'.op = "Pause" =>
           (/\ Len(SelectSeq(hist'.calls, IsCommitAttempt)) <= 1
            /\ Len(SelectSeq(hist'.calls, IsCommitAttempt)) = 1 => world.dirty
            /\ ~hist'.err.isErr =>
                   Len(SelectSeq(hist'.calls, IsCommit)) = (IF world.dirty THEN 1 ELSE 0)
            /\ \A n \in 1..Len(hist'.calls) : hist'.calls[n].fn \in PauseCalls)]_vars

\* A Pause of a dirty worktree made its one commit and left it clean.
C12_Witness ==
    /\ hist.op = "Pause"
    /\ ~hist.err.isErr
    /\ Len(SelectSeq(hist.calls, IsCommit)) = 1
    /\ ~world.dirty
    /\ inst.Status = "Paused"

Called(calls, fn) == \E n \in 1..Len(calls) : calls[n].fn = fn

CallFailed(calls, fn) == \E n \in 1..Len(calls) : calls[n].fn = fn /\ calls[n].failed

\* C14: Resume on a Paused instance whose branch is checked out elsewhere
\* returns an error and changes nothing: Status stays Paused, and after the
\* branch check it runs no worktree setup and neither restores nor starts
\* the session.
C14_ResumeRejectedWhenCheckedOut ==
    [][(/\ hist'.op = "Resume"
        /\ inst.started
        /\ inst.Status = "Paused"
        /\ world.checkedOut)
           => (/\ hist'.err.isErr
               /\ Names(hist'.calls) = <<"git.IsBranchCheckedOut">>
               /\ inst' = inst
               /\ ds' = ds
               /\ world' = world)]_vars

\* A Resume found the branch checked out and left the instance Paused.
C14_Witness ==
    /\ hist.op = "Resume"
    /\ inst.Status = "Paused"
    /\ world.checkedOut
    /\ Mentions(hist.err,
                "cannot resume: branch is checked out, please switch to a different branch")

ReachedSession(calls) ==
    /\ Called(calls, "os.Stat")
    /\ ~CallFailed(calls, "os.Stat")
    /\ ~CallFailed(calls, "git.Setup")

C17_SendPromptTextThenEnter ==
    (hist.op = "SendPrompt" /\ inst.started) =>
        /\ Failed("tmux.SendKeys") =>
               (Names(hist.calls) = <<"tmux.SendKeys">> /\ hist.err.isErr)
        /\ ~Failed("tmux.SendKeys") =>
               (/\ Names(hist.calls) = <<"tmux.SendKeys", "time.Sleep", "tmux.TapEnter">>
                /\ PromptDelayMs > 0)

\* A SendPrompt sent the text and, after the pause, Enter.
C17_Witness ==
    /\ hist.op = "SendPrompt"
    /\ inst.started
    /\ ~hist.err.isErr
    /\ Attempted("tmux.TapEnter")
    /\ DoesSessionExist(world)

\* C18: while started is TRUE no step changes Title and every SetTitle
\* returns an error; while started is FALSE SetTitle returns no error.
C18_TitleImmutableOnceStarted ==
    [][/\ inst.started => inst'.Title = inst.Title
       /\ hist'.op = "SetTitle" => (hist'.err.isErr <=> inst.started)]_vars

\* A SetTitle on a started instance was refused and the title is as it was.
C18_Witness ==
    /\ hist.op = "SetTitle"
    /\ inst.started
    /\ inst.Title = "t1"
    /\ Mentions(hist.err, "cannot change title of a started instance")

\* The operations that need a started instance.
NeedStarted == {"Preview", "Attach", "SetPreviewSize", "SendKeys", "RepoName", "SendPrompt"}

\* C19: each of Preview, Attach, SetPreviewSize, SendKeys, RepoName and
\* SendPrompt on an instance that is not started returns an error, changes
\* nothing and makes no call on the session or the worktree.
C19_NotStartedRejected ==
    [][(hist'.op \in NeedStarted /\ ~inst.started) =>
           (/\ hist'.err.isErr
            /\ hist'.calls = <<>>
            /\ inst' = inst
            /\ ds' = ds
            /\ world' = world)]_vars

\* C19, amended: on an instance that is not started Attach, SetPreviewSize,
\* SendKeys, RepoName and SendPrompt return an error and Preview returns
\* no error (and no content); none of the six changes anything or makes a
\* call on the session or the worktree.
C19_NotStartedNoEffect ==
    [][(hist'.op \in NeedStarted /\ ~inst.started) =>
           (/\ hist'.err.isErr <=> hist'.op # "Preview"
            /\ hist'.calls = <<>>
            /\ inst' = inst
            /\ ds' = ds
            /\ world' = world)]_vars

\* An Attach was refused on an instance that is not started although it
\* holds a session object, left by a Start that failed.
C19_Witness ==
    /\ hist.op = "Attach"
    /\ ~inst.started
    /\ inst.tmuxSession = "obj"
    /\ Mentions(hist.err, "cannot attach instance that has not been started")

\* C20: when a DevServer.Start fails because the build command fails, the
\* launch of the dev session fails or the wait for the session times out,
\* the status is Stopped when it returns and the error is returned; after a
\* failed build no session is launched.
C20_StartFailureRevertsToStopped ==
    [][(/\ hist'.op \in {"DevServer.Start", "handleDevServerStart"}
        /\ \/ CallFailed(hist'.calls, "sh -c build")
           \/ CallFailed(hist'.calls, "tmux new-session")
           \/ CallFailed(hist'.calls, "session.DoesSessionExist"))
           => (/\ ds'.status = "DevServerStopped"
               /\ hist'.err.isErr
               /\ CallFailed(hist'.calls, "sh -c build")
                      => (/\ ~Called(hist'.calls, "tmux new-session")
                          /\ world' = world
                          /\ ds'.session = ds.session))]_vars

\* A DevServer.Start of a dev server that had crashed failed in its build:
\* the status is Stopped and the error is returned.
C20_Witness ==
    /\ hist.op = "DevServer.Start"
    /\ Failed("sh -c build")
    /\ Mentions(hist.err, "build failed: ")
    /\ ds.status = "DevServerStopped"
    /\ ds.crashCount > 0

\* C21: DevServer.Stop, called in any status and with or without a session,
\* returns no error and leaves the status Stopped and the session reference
\* nil; a Stop that follows a Stop changes nothing and calls nothing.
C21_StopIdempotentAndTotal ==
    [][(hist'.op = "DevServer.Stop" /\ ~ds.stopFails)
        => /\ ~hist'.err.isErr
           /\ ds'.status = "DevServerStopped"
           /\ ds'.session = "nil"
           /\ hist.op = "DevServer.Stop"
                => /\ ds' = ds
                   /\ world' = world
                   /\ hist'.calls = <<>>]_vars

\* A Stop found a session and interrupted it.
C21_Witness ==
    /\ hist.op = "DevServer.Stop"
    /\ Attempted("dev.SendKeys")
    /\ ~ds.stopFails
    /\ ds.status = "DevServerStopped"
    /\ ds.session = "nil"

\* C22: CheckHealth changes nothing unless the status is Running; when the
\* status is Running and the session is gone, one call adds exactly 1 to the
\* crash count and sets the status Crashed, and calls that follow without a
\* restart leave the crash count and the status as they are.
C22_CheckHealthCountsACrashOnce ==
    [][(hist'.op = "Tick" /\ Called(hist'.calls, "DevServer.CheckHealth"))
        => /\ ds.status # "DevServerRunning" => ds' = ds
           /\ (ds.status = "DevServerRunning" /\ ~world.dsSession)
                => /\ ds'.crashCount = ds.crashCount + 1
                   /\ ds'.status = "DevServerCrashed"
           /\ (hist.op = "Tick" /\ ds.status = "DevServerCrashed")
                => /\ ds'.crashCount = ds.crashCount
                   /\ ds'.status = "DevServerCrashed"]_vars

\* A tick's CheckHealth found the session of a Running dev server gone, for
\* the second time.
C22_Witness ==
    /\ hist.op = "Tick"
    /\ Attempted("DevServer.CheckHealth")
    /\ ds.status = "DevServerCrashed"
    /\ ds.crashCount = 2
    /\ ~world.dsSession

\* C23: the output buffer holds at most 100 lines, and they are the lines
\* appended last, in their order of arrival.
C23_BufferHoldsLastLines ==
    LET ls == Output(output)
    IN  /\ Len(ls) <= MaxOutputLines
        /\ Len(ls) = IF appends.lines < MaxOutputLines THEN appends.lines
                     ELSE MaxOutputLines
        /\ ls = Arriving(appends.lines - Len(ls), Len(ls))

\* The text `sub` occurs in the text `text`.
Contains(text, sub) ==
    \E k \in 0..(Len(text) - Len(sub)) : SubSeq(text, k + 1, k + Len(sub)) = sub

\* C24: combineErrors returns no error for an empty list, the error itself
\* for a list of one, and for two or more one error whose text starts with
\* the header and contains the message of every error of the list.
C24_CombineErrors ==
    hist.op = "combineErrors"
        => /\ Len(cleanupErrs) = 0 => hist.err = Nil
           /\ Len(cleanupErrs) = 1 => hist.err = cleanupErrs[1]
           /\ Len(cleanupErrs) >= 2
                => /\ hist.err.isErr
                   /\ Head(hist.err.text) = "multiple cleanup errors occurred:"
                   /\ \A n \in 1..Len(cleanupErrs) : Contains(hist.err.text, cleanupErrs[n].text)

\* Three different errors were combined, one of them a wrapped one.
C24_Witness ==
    /\ hist.op = "combineErrors"
    /\ Len(cleanupErrs) = 3
    /\ \A e \in ErrorInputs : \E n \in 1..3 : cleanupErrs[n] = e
    /\ hist.err.isErr

\* C25: the list never holds more than ten instances, and a command that
\* creates an instance while ten exist is refused with an error and adds
\* none.
C25_InstanceLimit ==
    [][/\ home'.instances <= GlobalInstanceLimit
       /\ (hist'.op \in {"KeyNew", "KeyPrompt"}
             /\ home.instances = GlobalInstanceLimit)
            => /\ hist'.err.isErr
               /\ home'.instances = home.instances
               /\ home'.state = home.state]_vars

\* A create command was refused with the list full.
C25_Witness ==
    /\ hist.op \in {"KeyNew", "KeyPrompt"}
    /\ hist.err = Errorf("you can't create more than 10 instances")
    /\ home.instances = GlobalInstanceLimit

\* C26: the sweep of the tick over an instance never executes at the same
\* time as an operation that changes the instance or its DevServer, the
\* stopping of the dev servers at shutdown included.
C26_SweepNeverConcurrent ==
    ~(pc.loop = "Tick" /\ pc.signal = "cleanup" /\ inst.DevServer # "nil"
        /\ ds.status = "DevServerRunning")

\* C27: whoever reads the output buffer holds the lock, and so never sees it
\* between the append and the trim, with more than 100 lines.
C27_ReadersHoldTheLock ==
    /\ seen.locked
    /\ seen.len <= MaxOutputLines

\* C28: once the root context is cancelled, no pending tick command, of the
\* metadata tick or of the preview tick, waits out its sleep: no time passes
\* for it.
C28_TicksReturnOnCancel ==
    [][timers.ctx = "cancelled"
        => /\ timers'.metadata >= timers.metadata
           /\ timers'.preview >= timers.preview]_vars

\* C29: when the session of a dev server whose status is Running is gone,
\* the ticking poller brings the status to Crashed, whatever the status of
\* the instance that owns the dev server.
C29_VanishedSessionLeadsToCrashed ==
    (inst.DevServer # "nil" /\ ds.status = "DevServerRunning" /\ ~world.dsSession)
        ~> (ds.status = "DevServerCrashed")

\* C30: every change of status made by Start, Stop and CheckHealth follows
\* the state machine: Building is entered from Stopped or Crashed, by Start;
\* Starting from Building, by Start; Running from Starting, by Start, with
\* the session there; Crashed from Running, by CheckHealth; Stopped by Stop,
\* or by a Start that returns the error of its build or launch.
C30_StatusStateMachine ==
    [][(hist'.op \in {"DevServer.Start", "DevServer.Stop", "DevServer.CheckHealth"}
          /\ ds'.status # ds.status)
        => CASE ds'.status = "DevServerBuilding"
                  -> /\ hist'.op = "DevServer.Start"
                     /\ ds.status \in {"DevServerStopped", "DevServerCrashed"}
             [] ds'.status = "DevServerStarting"
                  -> /\ hist'.op = "DevServer.Start"
                     /\ ds.status = "DevServerBuilding"
             [] ds'.status = "DevServerRunning"
                  -> /\ hist'.op = "DevServer.Start"
                     /\ ds.status = "DevServerStarting"
                     /\ Called(hist'.calls, "session.DoesSessionExist")
                     /\ ~CallFailed(hist'.calls, "session.DoesSessionExist")
                     /\ world'.dsSession
             [] ds'.status = "DevServerCrashed"
                  -> /\ hist'.op = "DevServer.CheckHealth"
                     /\ ds.status = "DevServerRunning"
             [] OTHER
                  -> \/ hist'.op = "DevServer.Stop"
                     \/ /\ hist'.op = "DevServer.Start"
                        /\ hist'.err.isErr
                        /\ \/ Mentions(hist'.err, "build failed: ")
                           \/ Mentions(hist'.err, "failed to start dev server: ")]_vars

\* A restored dev server that had crashed was started and its Start went
\* through Building and Starting to Running.
C30_Witness ==
    /\ hist.op = "DevServer.Start"
    /\ ~hist.err.isErr
    /\ pc.loop = "idle"
    /\ ds.status = "DevServerRunning"
    /\ ds.crashCount > 0
    /\ Attempted("session.DoesSessionExist")

\* C31: two instances with distinct titles have dev-server sessions of
\* distinct names, so no DevServer refers to the session of another and the
\* start of one never kills the session of another.
C31_DevServerSessionsDistinct ==
    \A j, k \in Fleet :
        (j # k /\ fleet.started[j] /\ fleet.started[k] /\ fleet.title[j] # fleet.title[k]) =>
            /\ devServerSessionName(fleet.title[j]) # devServerSessionName(fleet.title[k])
            /\ fleet.session[j] # NoSession => fleet.session[j] # fleet.session[k]
            /\ fleet.killed = 0

C33_BackoffInterval ==
    backoff.state = "polling" =>
        /\ backoff.sleepDuration >= BackoffInitialMs
        /\ backoff.sleepDuration <= BackoffCeilingMs
        /\ backoff.sleptAt < BackoffTimeoutMs

\* C34: Kill on an instance that is not started but holds a terminal
\* session or a worktree does not return early: it closes the session it
\* holds and cleans up the worktree it holds; when it holds neither, Kill
\* returns no error.
C34_KillWorksWhenNotStarted ==
    [][(hist'.op = "Kill" /\ ~inst.started) =>
          /\ inst.tmuxSession # "nil" => Called(hist'.calls, "tmux.Close")
          /\ inst.gitWorktree # "nil" => Called(hist'.calls, "git.Cleanup")
          /\ (inst.tmuxSession = "nil" /\ inst.gitWorktree = "nil") => ~hist'.err.isErr]_vars

\* C35: Pause is all or nothing.  A Pause that returns an error leaves
\* Status as it was and has not detached the terminal session; a Pause that
\* returns no error leaves Status Paused.
C35_PauseAllOrNothing ==
    [][hist'.op = "Pause" =>
          IF hist'.err.isErr
          THEN /\ inst'.Status = inst.Status
               /\ ~(/\ Called(hist'.calls, "tmux.DetachSafely")
                    /\ ~CallFailed(hist'.calls, "tmux.DetachSafely"))
               /\ world'.tmux = world.tmux
          ELSE inst'.Status = "Paused"]_vars

\* C36: in every state, also right after the instance was restored from
\* its stored record, a DevServer whose status is Running holds a session
\* reference.
C36_RunningHoldsSession ==
    (inst.DevServer # "nil" /\ ds.status = "DevServerRunning") => ds.session # "nil"

\* C37: an UpdateOutput that finds the pane content as the UpdateOutput
\* before it found it leaves the output buffer as it was.
C37_UpdateOutputIdempotent ==
    (pane.op = "UpdateOutput" /\ pane.updates >= 2 /\ pane.last = pane.prev)
        => output = pane.before

\* C38: Status Paused is left only through a Resume that returns no error,
\* and a metadata tick on an instance that is Paused or not started calls
\* nothing on its session and changes nothing of the instance.
C38_PausedLeftOnlyByResume ==
    [][/\ (inst.Status = "Paused" /\ inst'.Status # "Paused")
            => (hist'.op = "Resume" /\ ~hist'.err.isErr)
       /\ (hist'.op = "Tick" /\ (inst.Status = "Paused" \/ ~inst.started))
            => (hist'.calls = <<>> /\ inst' = inst /\ ds' = ds)]_vars

C38_Witness ==
    /\ hist.op = "Tick"
    /\ inst.started
    /\ inst.Status = "Paused"
    /\ hist.calls = <<>>
    /\ DoesSessionExist(world)

\* C39: no operation on an instance whose Status is Paused sends input to
\* its terminal session: neither keys nor Enter are transmitted.
C39_NoInputWhilePaused ==
    [][inst.Status = "Paused" =>
          /\ ~Called(hist'.calls, "tmux.SendKeys")
          /\ ~Called(hist'.calls, "tmux.TapEnter")]_vars

\* C40: the State a startup loads holds the instances of the last
\* SaveInstances, or none after DeleteAllInstances.
C40_PersistenceRoundTrip ==
    (disk.op = "startup" /\ disk.saved.exists) => disk.loaded = disk.saved.instances

====
